---- MODULE Spec2Model ----
(***************************************************************************)
(* Relationship-graph consolidation engine of projectnexus:                *)
(*   agent/graph.py  - identity resolver and the Neo4j relationship store  *)
(*   agent/agent.py  - run_agent (bounded tool-calling loop) and           *)
(*                     summarize_edges (summary backfill)                  *)
(*   backend/main.py - summarize_edge (on-demand single-edge summary)      *)
(*                                                                         *)
(* Identifiers are strings, modelled as sequences of character codes so    *)
(* that strip(), lower(), the "@" test and Python's string ordering are    *)
(* computed rather than assumed.  The graph is a set of Person keys and a  *)
(* list of relationships in creation order (the index of a relationship    *)
(* is its identity).  Every store call is one transaction and is taken as  *)
(* one atomic step.                                                        *)
(***************************************************************************)
EXTENDS Integers, Sequences, FiniteSets, TLC

\* ------------------------------------------------------------------------
\* Strings
\* ------------------------------------------------------------------------

\* "@" (code 64), the marker email_to_name tests for.
AT == 64

\* No letter is changed.
LowerChar_Same(c) == c

\* str.lower() on one character (ASCII letters).
LowerChar(c) == IF c >= 65 /\ c <= 90 THEN c + 32 ELSE c

\* str.lower()
Lower(s) == [i \in 1..Len(s) |-> LowerChar(s[i])]

\* whitespace as str.strip() sees it (space, tab, newline, CR)
IsSpace(c) == c \in {32, 9, 10, 13}

RECURSIVE LStrip(_)
LStrip(s) == IF s # <<>> /\ IsSpace(Head(s)) THEN LStrip(Tail(s)) ELSE s

RECURSIVE RStrip(_)
RStrip(s) ==
    IF s # <<>> /\ IsSpace(s[Len(s)]) THEN RStrip(SubSeq(s, 1, Len(s) - 1)) ELSE s

\* str.strip()
Strip(s) == RStrip(LStrip(s))

\* "@" in s
HasAt(s) == \E i \in 1..Len(s) : s[i] = AT

\* s < t in Python's ordering of str (lexicographic by code point)
RECURSIVE StrLess(_, _)
StrLess(s, t) ==
    IF t = <<>> THEN FALSE
    ELSE IF s = <<>> THEN TRUE
    ELSE IF Head(s) # Head(t) THEN Head(s) < Head(t)
    ELSE StrLess(Tail(s), Tail(t))

\* Python min(a, b) and max(a, b): the first argument wins a tie.
PyMin(a, b) == IF StrLess(b, a) THEN b ELSE a
PyMax(a, b) == IF StrLess(a, b) THEN b ELSE a

\* ------------------------------------------------------------------------
\* Identity resolver (graph.py)
\* ------------------------------------------------------------------------

\* dict.get(key, default) on the alias table, a function from lowercased
\* emails to canonical strings.
AliasGet(table, key) == IF key \in DOMAIN table THEN table[key] ELSE key

\* email_to_name(email) with the alias table already loaded.
email_to_name(table, email) ==
    LET e == Strip(email) IN
    IF ~HasAt(e) THEN e ELSE AliasGet(table, Lower(e))

\* normalize_pair without the ordering: the arguments as given.
normalize_pair_as_given(a, b) == <<a, b>>

\* normalize_pair(a, b)
normalize_pair(a, b) == <<PyMin(a, b), PyMax(a, b)>>

\* ------------------------------------------------------------------------
\* Relationship store (graph.py)
\* ------------------------------------------------------------------------

\* The empty database.
EmptyGraph == [persons |-> {}, edges |-> <<>>]

\* A relationship created with a summary property.
NewEdge_Summarized(lo, hi, comment) ==
    [src |-> lo, dst |-> hi, comments |-> <<comment>>, email_count |-> 0,
     summary |-> <<comment>>]

\* A COMMUNICATES_WITH relationship as MERGE ... ON CREATE SET writes it:
\* no summary property (the empty sequence stands for an absent property).
NewEdge(lo, hi, comment) ==
    [src |-> lo, dst |-> hi, comments |-> <<comment>>, email_count |-> 0,
     summary |-> <<>>]

\* The relationships the undirected pattern (a {email: x})-[r]-(b {email: y})
\* matches: either direction; a self-loop is matched once.
MatchEdges(g, x, y) ==
    {i \in 1..Len(g.edges) :
        \/ g.edges[i].src = x /\ g.edges[i].dst = y
        \/ g.edges[i].src = y /\ g.edges[i].dst = x}

\* No Person is merged.
upsert_persons_Nothing(g, table, emails) == g

\* upsert_persons(tx, emails): MERGE (p:Person {email: name}) for each.
upsert_persons(g, table, emails) ==
    [g EXCEPT !.persons = @ \cup {email_to_name(table, emails[i]) : i \in 1..Len(emails)}]

\* The statement of append_comment with ON MATCH SET r.comments = [$comment]:
\* a matched relationship's comments are replaced.
MergeAppend_Replacing(g, lo, hi, comment) ==
    IF lo \notin g.persons \/ hi \notin g.persons THEN g
    ELSE LET matched == MatchEdges(g, lo, hi)
         IN  IF matched = {}
             THEN [g EXCEPT !.edges = Append(@, NewEdge(lo, hi, comment))]
             ELSE [g EXCEPT !.edges =
                     [i \in 1..Len(g.edges) |->
                         IF i \in matched
                         THEN [g.edges[i] EXCEPT !.comments = <<comment>>]
                         ELSE g.edges[i]]]

\* The Cypher statement of append_comment: MATCH both Person nodes (no row,
\* hence no write, when one is missing), MERGE the undirected relationship,
\* ON CREATE comments = [comment], email_count = 0, ON MATCH comments + comment.
MergeAppend(g, lo, hi, comment) ==
    IF lo \notin g.persons \/ hi \notin g.persons THEN g
    ELSE LET matched == MatchEdges(g, lo, hi)
         IN  IF matched = {}
             THEN [g EXCEPT !.edges = Append(@, NewEdge(lo, hi, comment))]
             ELSE [g EXCEPT !.edges =
                     [i \in 1..Len(g.edges) |->
                         IF i \in matched
                         THEN [g.edges[i] EXCEPT !.comments = Append(@, comment)]
                         ELSE g.edges[i]]]

\* append_comment(tx, email_a, email_b, comment)
append_comment(g, table, email_a, email_b, comment) ==
    LET name_a == email_to_name(table, email_a)
        name_b == email_to_name(table, email_b)
        p == normalize_pair(name_a, name_b)
    IN  MergeAppend(g, p[1], p[2], comment)

\* The nested loops of append_comment_cross visit (a, b) in row-major order;
\* visit k is of a_emails[RowOf(k)] and b_emails[ColOf(k)].
RowOf(k, b_emails) == ((k - 1) \div Len(b_emails)) + 1
ColOf(k, b_emails) == ((k - 1) % Len(b_emails)) + 1

\* Visit k reaches append_comment whenever a # b: no `seen` set.
CrossKeeps_Unseen(a_emails, b_emails, k) ==
    a_emails[RowOf(k, b_emails)] # b_emails[ColOf(k, b_emails)]

\* Visit k reaches append_comment: a # b, and normalize_pair(a, b) of the raw
\* arguments was not put in `seen` by an earlier visit.
CrossKeeps(a_emails, b_emails, k) ==
    LET a == a_emails[RowOf(k, b_emails)]
        b == b_emails[ColOf(k, b_emails)]
    IN  /\ a # b
        /\ \A j \in 1..(k - 1) :
              LET a2 == a_emails[RowOf(j, b_emails)]
                  b2 == b_emails[ColOf(j, b_emails)]
              IN  a2 = b2 \/ normalize_pair(a2, b2) # normalize_pair(a, b)

\* The append_comment calls of append_comment_cross from visit k on.
RECURSIVE CrossLoop(_, _, _, _, _, _)
CrossLoop(g, table, a_emails, b_emails, comment, k) ==
    IF k > Len(a_emails) * Len(b_emails) THEN g
    ELSE IF ~CrossKeeps(a_emails, b_emails, k)
         THEN CrossLoop(g, table, a_emails, b_emails, comment, k + 1)
         ELSE CrossLoop(append_comment(g, table, a_emails[RowOf(k, b_emails)],
                                       b_emails[ColOf(k, b_emails)], comment),
                        table, a_emails, b_emails, comment, k + 1)

\* append_comment_cross(tx, a_emails, b_emails, comment)
append_comment_cross(g, table, a_emails, b_emails, comment) ==
    CrossLoop(g, table, a_emails, b_emails, comment, 1)

\* append_comment_batch(tx, from_email, to_emails, comment)
append_comment_batch(g, table, from_email, to_emails, comment) ==
    append_comment_cross(g, table, <<from_email>>, to_emails, comment)

\* append_comment_recipient_pairs(tx, recipient_emails, comment)
append_comment_recipient_pairs(g, table, recipient_emails, comment) ==
    append_comment_cross(g, table, recipient_emails, recipient_emails, comment)

\* One row of UNWIND ... MATCH (a {lo})-[r]-(b {hi}) SET r.email_count =
\* coalesce(r.email_count, 0) + 1: every matched relationship is bumped; a
\* later row reads what an earlier row wrote.
BumpCount(g, lo, hi) ==
    [g EXCEPT !.edges =
        [i \in 1..Len(@) |->
            IF i \in MatchEdges(g, lo, hi)
            THEN [@[i] EXCEPT !.email_count = @ + 1]
            ELSE @[i]]]

\* increment_email_count_batch(tx, pairs): pairs is a list of (a, b) tuples.
RECURSIVE increment_email_count_batch(_, _, _)
increment_email_count_batch(g, table, pairs) ==
    IF pairs = <<>> THEN g
    ELSE LET p == normalize_pair(email_to_name(table, Head(pairs)[1]),
                                 email_to_name(table, Head(pairs)[2]))
         IN  increment_email_count_batch(BumpCount(g, p[1], p[2]), table, Tail(pairs))

\* One row of set_summary / set_summary_batch: SET r.summary = summary on
\* every matched relationship.
SetSummary(g, lo, hi, summary) ==
    [g EXCEPT !.edges =
        [i \in 1..Len(@) |->
            IF i \in MatchEdges(g, lo, hi)
            THEN [@[i] EXCEPT !.summary = <<summary>>]
            ELSE @[i]]]

\* The rows of `updates` whose MATCH finds relationship i.
UpdatesOf(g, table, updates, i) ==
    {k \in 1..Len(updates) :
        \E key \in {normalize_pair(email_to_name(table, updates[k][1]),
                                   email_to_name(table, updates[k][2]))} :
            i \in MatchEdges(g, key[1], key[2])}

\* set_summary_batch(tx, updates): updates is a list of (a, b, summary).
\* UNWIND takes the rows in order and each SETs r.summary on the
\* relationship it matches: a relationship ends with the summary of the last
\* row that matches it.
set_summary_batch(g, table, updates) ==
    [g EXCEPT !.edges =
        [i \in 1..Len(@) |->
            IF UpdatesOf(g, table, updates, i) = {} THEN @[i]
            ELSE [@[i] EXCEPT !.summary =
                    <<updates[CHOOSE k \in UpdatesOf(g, table, updates, i) :
                                 \A j \in UpdatesOf(g, table, updates, i) : j <= k][3]>>]]]

\* get_all_edges(tx): one row per relationship with a.email < b.email and
\* at least one comment, in relationship order.
RECURSIVE EdgeRows(_, _)
EdgeRows(g, i) ==
    IF i > Len(g.edges) THEN <<>>
    ELSE LET r == g.edges[i]
             row == [email_a |-> PyMin(r.src, r.dst), email_b |-> PyMax(r.src, r.dst),
                     comments |-> r.comments, summary |-> r.summary]
         IN  (IF r.src # r.dst /\ Len(r.comments) > 0 THEN <<row>> ELSE <<>>)
             \o EdgeRows(g, i + 1)

get_all_edges(g) == EdgeRows(g, 1)

\* ------------------------------------------------------------------------
\* Extraction loop (agent.py, run_agent): data
\* ------------------------------------------------------------------------

MAX_AGENT_ROUNDS == 5

\* Bounds of the model.
MaxOps == 2              \* tool calls the reasoning model issues in a run of Spec
MaxSummaries == 1        \* summarize_edges runs plus summarize_edge requests
MaxPeople == 8           \* people of the large graph summarize_edges runs over
MaxIrregular == 1        \* tasks of a run that fail or end out of submission order

\* The controller instances (one run_agent call each).
Threads == {1, 2}

\* Raw identifiers: "a@", "A@", "b@" are email-shaped, "C" and "D" are names.
A_LO == <<97, AT>>
A_UP == <<65, AT>>
B_LO == <<98, AT>>
C_NAME == <<67>>
D_NAME == <<68>>

\* email_addresses arguments of run_agent.  No list names "D".
AddressLists == {<<A_UP, B_LO, C_NAME>>}

\* Contents of aliases.json: no alias, or "b@" is the person named "C".
AliasTables == {<<>>, (B_LO :> C_NAME)}

\* Tool calls the reasoning model may return (function.name and the JSON text
\* of function.arguments, given as the object it parses to; bad_json stands
\* for text json.loads rejects).
Pairwise(a, b, c) ==
    [name |-> "add_relationship_comment",
     args |-> [from_person |-> a, to_person |-> b, comment |-> c]]
Broadcast(a, bs, c) ==
    [name |-> "add_relationship_comments_batch",
     args |-> [from_person |-> a, to_people |-> bs, comment |-> c]]
Group(ps, c) ==
    [name |-> "add_relationship_group", args |-> [people |-> ps, comment |-> c]]

\* Pairwise calls: a pair, the same pair reversed in another spelling, and a
\* pair of one identifier with itself.
PairwiseCalls ==
    { Pairwise(A_LO, B_LO, "c1"),
      Pairwise(B_LO, A_UP, "c2"),
      Pairwise(A_LO, A_LO, "c1") }

\* Calls of the three shapes: a broadcast whose recipients are two spellings
\* of one person, a broadcast that lists its sender, a group, a group listing a
\* member twice, a pair, and a pair naming a person nobody upserted.
FanoutCalls ==
    { Broadcast(B_LO, <<A_UP, A_LO>>, "c1"),
      Broadcast(A_LO, <<A_LO, B_LO, C_NAME>>, "c2"),
      Group(<<A_LO, B_LO, C_NAME>>, "c1"),
      Group(<<A_LO, A_LO, B_LO>>, "c2"),
      Pairwise(A_LO, B_LO, "c1"),
      Pairwise(A_LO, D_NAME, "c1") }

\* Broadcasts from a@ to three other persons, to a list that names a@ itself,
\* and to a list that names a@ as "A@"; a group of the three recipients.
BroadcastCalls ==
    { Broadcast(A_LO, <<B_LO, C_NAME, D_NAME>>, "c1"),
      Broadcast(A_LO, <<A_LO, B_LO, D_NAME>>, "c2"),
      Broadcast(A_LO, <<A_UP, B_LO>>, "c1"),
      Group(<<B_LO, C_NAME, D_NAME>>, "c1") }

\* Groups of four, three and two members.
GroupCalls ==
    { Group(<<A_LO, B_LO, C_NAME, D_NAME>>, "c1"),
      Group(<<B_LO, D_NAME, A_UP>>, "c2"),
      Group(<<C_NAME, D_NAME>>, "c1") }

\* The thread's addresses with a fourth person.
FourAddresses == <<A_UP, B_LO, C_NAME, D_NAME>>

MalformedCalls ==
    { [name |-> "add_relationship_comment", args |-> [bad_json |-> TRUE]],
      [name |-> "add_relationship_comment",
       args |-> [from_person |-> A_LO, to_person |-> B_LO]],
      [name |-> "add_relationship_comment",
       args |-> [from_person |-> A_LO, comment |-> "c1"]],
      [name |-> "add_relationship_comments_batch",
       args |-> [from_person |-> A_LO, comment |-> "c1"]],
      [name |-> "add_relationship_comments_batch",
       args |-> [to_people |-> <<B_LO>>, comment |-> "c1"]],
      [name |-> "add_relationship_group", args |-> [comment |-> "c1"]],
      [name |-> "delete_relationship",
       args |-> [from_person |-> A_LO, to_person |-> B_LO, comment |-> "c1"]],
      [name |-> "delete_relationship", args |-> [edge |-> "x", comment |-> "c1"]] }

\* Every model call of a thread whose menu is RoundsCalls can return a tool call.
RoundsCalls == { Pairwise(A_LO, B_LO, "c1"), Broadcast(A_LO, <<>>, "c2") }

\* message.content of a response: absent (None) or a text.
TextOnly == {<<"summary">>}
TextOrNone == {<<>>, <<"summary">>}
ToolContents == {<<>>}

\* Summaries the model returns for an edge: texts, or the empty string.
SummaryTexts == {"s1"}

KnownNames ==
    {"add_relationship_comment", "add_relationship_comments_batch",
     "add_relationship_group"}

\* The fields each tool schema declares as required.
RequiredFields(name) ==
    IF name = "add_relationship_comments_batch" THEN {"from_person", "to_people", "comment"}
    ELSE IF name = "add_relationship_group" THEN {"people", "comment"}
    ELSE {"from_person", "to_person", "comment"}

\* ------------------------------------------------------------------------
\* Extraction loop: helpers
\* ------------------------------------------------------------------------

\* [p.strip() for p in xs]
StripAll(xs) == [i \in 1..Len(xs) |-> Strip(xs[i])]

\* [p for p in xs if p != x]
Without(xs, x) == SelectSeq(xs, LAMBDA p : p # x)

\* tuple(sorted([a, b]))
SortedPair(a, b) == IF StrLess(b, a) THEN <<b, a>> ELSE <<a, b>>

\* {tuple(sorted([p1, p2])) for p1, p2 in itertools.combinations(people, 2)}
CombinationPairs(people) ==
    {SortedPair(people[ij[1]], people[ij[2]]) :
        ij \in {x \in (1..Len(people)) \X (1..Len(people)) : x[1] < x[2]}}

\* {tuple(sorted([from_person, p])) for p in to_people}
BroadcastPairs(from_person, to_people) ==
    {SortedPair(from_person, to_people[i]) : i \in 1..Len(to_people)}

\* args.get(key) or []
GetList(args, key) == IF key \in DOMAIN args THEN args[key] ELSE <<>>

\* list(modified_pairs): some order of the set (the increments commute).
RECURSIVE SetToList(_)
SetToList(S) ==
    IF S = {} THEN <<>>
    ELSE LET x == CHOOSE y \in S : TRUE IN <<x>> \o SetToList(S \ {x})

\* The body of `for tool_call in assistant_msg.tool_calls` for one tool call,
\* up to and including its store transaction and the update of modified_pairs.
\* raised: an exception left the loop (json.loads, a missing key).
Raised(g, mp) == [raised |-> TRUE, g |-> g, mp |-> mp]

BatchBranch(g, table, mp, args) ==
    IF "from_person" \notin DOMAIN args THEN Raised(g, mp)
    ELSE LET from_person == Strip(args.from_person)
             to_people == Without(StripAll(GetList(args, "to_people")), from_person)
         IN  [raised |-> FALSE,
              g |-> append_comment_batch(g, table, from_person, to_people, args.comment),
              mp |-> mp \cup BroadcastPairs(from_person, to_people)]

GroupBranch(g, table, mp, args) ==
    LET people == StripAll(GetList(args, "people"))
    IN  [raised |-> FALSE,
         g |-> append_comment_recipient_pairs(g, table, people, args.comment),
         mp |-> mp \cup CombinationPairs(people)]

ElseBranch(g, table, mp, args) ==
    IF "from_person" \notin DOMAIN args \/ "to_person" \notin DOMAIN args
    THEN Raised(g, mp)
    ELSE LET from_person == Strip(args.from_person)
             to_person == Strip(args.to_person)
         IN  [raised |-> FALSE,
              g |-> append_comment(g, table, from_person, to_person, args.comment),
              mp |-> mp \cup {SortedPair(from_person, to_person)}]

ToolCallStep(g, table, mp, call) ==
    IF "bad_json" \in DOMAIN call.args THEN Raised(g, mp)
    ELSE IF "comment" \notin DOMAIN call.args THEN Raised(g, mp)
    ELSE IF call.name = "add_relationship_comments_batch"
         THEN BatchBranch(g, table, mp, call.args)
    ELSE IF call.name = "add_relationship_group"
         THEN GroupBranch(g, table, mp, call.args)
    ELSE ElseBranch(g, table, mp, call.args)

\* The loop test off by one: while round_count <= MAX_AGENT_ROUNDS.
LoopContinues_Inclusive(rc) == rc <= MAX_AGENT_ROUNDS

\* while round_count < MAX_AGENT_ROUNDS
LoopContinues(rc) == rc < MAX_AGENT_ROUNDS

\* An exception caught inside run_agent, which then goes on to its end.
OnException_Swallowed == "finish"

\* run_agent has no try/except: an exception raised in the loop (json.loads,
\* a missing key, a failed transaction, a failed model call) leaves run_agent.
OnException == "error"

\* The increment without its `if modified_pairs:` test.
ShouldIncrement_Always(mp) == TRUE

\* if modified_pairs:
ShouldIncrement(mp) == mp # {}

\* summary = assistant_msg.content or "(no summary returned)"
SummaryOf(content) ==
    IF content = <<>> \/ content = <<"">> THEN "(no summary returned)" ELSE content[1]

\* ------------------------------------------------------------------------
\* Summaries (agent.py summarize_edges, backend/main.py summarize_edge): helpers
\* ------------------------------------------------------------------------

SUMMARY_WRITE_BATCH_SIZE == 25

\* (text or "").strip() for the texts of the model: " " strips to "".
StripText(text) == IF text = " " THEN "" ELSE text

\* not (e.get("summary") or "").strip(): the summary property is absent or blank
NoSummary(row) == row.summary = <<>> \/ StripText(row.summary[1]) = ""

\* The candidate rows of summarize_edges(emails, skip_existing).
ToProcess(g, emails, skip_existing) ==
    LET rows == get_all_edges(g)
        email_set == {emails[i] : i \in 1..Len(emails)}
        f1 == IF emails # <<>>
              THEN SelectSeq(rows, LAMBDA e : e.email_a \in email_set \/ e.email_b \in email_set)
              ELSE rows
        f2 == IF skip_existing THEN SelectSeq(f1, NoSummary) ELSE f1
    IN  SelectSeq(f2, LAMBDA e : e.comments # <<>>)

\* _summarize_one_edge without its `if not summary` test: a blank answer is
\* returned as a result.
summarize_one_edge_Unchecked(edge, out) ==
    << <<edge.email_a, edge.email_b, StripText(out)>> >>

\* _summarize_one_edge(edge) when the model answers `out`: the result tuple,
\* or None (<<>>) for an edge without comments or a blank answer.
summarize_one_edge(edge, out) ==
    IF edge.comments = <<>> \/ StripText(out) = "" THEN <<>>
    ELSE << <<edge.email_a, edge.email_b, StripText(out)>> >>

\* The flush test one too late: len(batch) > SUMMARY_WRITE_BATCH_SIZE.
BatchFull_Late(batch) == Len(batch) > SUMMARY_WRITE_BATCH_SIZE

\* if len(batch) >= SUMMARY_WRITE_BATCH_SIZE
BatchFull(batch) == Len(batch) >= SUMMARY_WRITE_BATCH_SIZE

\* flush_batch() that writes nothing.
FlushGraph_Skipped(g, table, batch) == g

\* flush_batch(): one set_summary_batch transaction unless the batch is empty.
FlushGraph(g, table, batch) ==
    IF batch = <<>> THEN g ELSE set_summary_batch(g, table, batch)

\* The rows MATCH (a {email: source})-[r]-(b {email: target}) RETURN r.comments
\* gives summarize_edge (the raw request strings, not resolved).
OnDemandComments(g, source, target) ==
    {g.edges[i].comments : i \in MatchEdges(g, source, target)}

\* ------------------------------------------------------------------------
\* Triage (agent.py, should_process_chain and parse_emails_from_chain)
\* ------------------------------------------------------------------------

MIN_ADDRESSES_FOR_TRIAGE == 2
MIN_BODY_LENGTH == 150

NEWLINE == 10

\* \s of the re module on ASCII text.
IsReSpace(c) == c \in {32, 9, 10, 11, 12, 13}

IsAlnum(c) == (c >= 97 /\ c <= 122) \/ (c >= 65 /\ c <= 90) \/ (c >= 48 /\ c <= 57)

\* The three character classes of EMAIL_RE:
\* [a-zA-Z0-9_.+-], [a-zA-Z0-9-] and [a-zA-Z0-9-.]
IsLocalChar(c) == IsAlnum(c) \/ c \in {95, 46, 43, 45}
IsDomainChar(c) == IsAlnum(c) \/ c = 45
IsTldChar(c) == IsAlnum(c) \/ c \in {45, 46}

\* The character classes the patterns repeat: the three of EMAIL_RE, "-"
\* (in ---+), \s, and "." without re.DOTALL (any character but a newline).
InClass(cls, c) ==
    CASE cls = "local" -> IsLocalChar(c)
      [] cls = "domain" -> IsDomainChar(c)
      [] cls = "tld" -> IsTldChar(c)
      [] cls = "dash" -> c = 45
      [] cls = "space" -> IsReSpace(c)
      [] cls = "line" -> c # NEWLINE

\* Where a greedy run of characters of class cls that starts at i ends: the
\* first position from i on that is past the text or not in the class.
RunEnd(s, i, cls) ==
    CHOOSE j \in i..(Len(s) + 1) :
        /\ j > Len(s) \/ ~InClass(cls, s[j])
        /\ \A k \in i..(j - 1) : InClass(cls, s[k])

\* The word w stands in s at position i.
StartsWithAt(s, i, w) ==
    /\ i + Len(w) - 1 <= Len(s)
    /\ \A k \in 1..Len(w) : s[i + k - 1] = w[k]

\* EMAIL_RE matched at position i: the position after the match, 0 for no
\* match.  No class holds the character that must follow it, so the greedy
\* runs are the only way to match.
EmailEnd(s, i) ==
    LET a == RunEnd(s, i, "local") IN
    IF a = i \/ a > Len(s) \/ s[a] # AT THEN 0
    ELSE LET d == RunEnd(s, a + 1, "domain") IN
         IF d = a + 1 \/ d > Len(s) \/ s[d] # 46 THEN 0
         ELSE LET e == RunEnd(s, d + 1, "tld") IN
              IF e = d + 1 THEN 0 ELSE e

\* The leftmost position from i on that is in starts, 0 if there is none:
\* where the scan of a regular expression finds its next match.
FirstFrom(starts, i) ==
    IF \A j \in starts : j < i THEN 0
    ELSE CHOOSE j \in starts : j >= i /\ \A k \in starts : k >= i => j <= k

\* The positions where EMAIL_RE matches.
EmailStarts(s) == {j \in 1..Len(s) : EmailEnd(s, j) # 0}

\* EMAIL_RE.findall(chain_text) from position i on: the leftmost match, then
\* the matches after its end.
RECURSIVE FindEmailsFrom(_, _, _)
FindEmailsFrom(s, starts, i) ==
    IF FirstFrom(starts, i) = 0 THEN <<>>
    ELSE <<SubSeq(s, FirstFrom(starts, i), EmailEnd(s, FirstFrom(starts, i)) - 1)>>
         \o FindEmailsFrom(s, starts, EmailEnd(s, FirstFrom(starts, i)))

FindEmails(s, i) == FindEmailsFrom(s, EmailStarts(s), i)

\* list(dict.fromkeys(q)): the first occurrence of each element, in order.
RECURSIVE FromKeys(_, _)
FromKeys(q, i) ==
    IF i > Len(q) THEN <<>>
    ELSE (IF \E j \in 1..(i - 1) : q[j] = q[i] THEN <<>> ELSE <<q[i]>>)
         \o FromKeys(q, i + 1)

\* parse_emails_from_chain(chain_text)
parse_emails_from_chain(chain_text) == FromKeys(FindEmails(chain_text, 1), 1)

\* The alternatives of SKIP_PATTERNS (re.IGNORECASE):
\* "out of office", "ooo", "automatic reply", "auto-reply",
\* "unsubscribe", "no-reply@", "do not reply", "mailer-daemon".
SkipWords ==
    { <<111, 117, 116, 32, 111, 102, 32, 111, 102, 102, 105, 99, 101>>,
      <<111, 111, 111>>,
      <<97, 117, 116, 111, 109, 97, 116, 105, 99, 32, 114, 101, 112, 108, 121>>,
      <<97, 117, 116, 111, 45, 114, 101, 112, 108, 121>>,
      <<117, 110, 115, 117, 98, 115, 99, 114, 105, 98, 101>>,
      <<110, 111, 45, 114, 101, 112, 108, 121, 64>>,
      <<100, 111, 32, 110, 111, 116, 32, 114, 101, 112, 108, 121>>,
      <<109, 97, 105, 108, 101, 114, 45, 100, 97, 101, 109, 111, 110>> }

\* SKIP_PATTERNS.search(chain_text)
SkipPatternFound(chain_text) ==
    \E low \in {Lower(chain_text)} :
        \E i \in 1..Len(low), w \in SkipWords : StartsWithAt(low, i, w)

\* The alternatives of the header pattern: "From:", "To:", "Cc:", "Subject:".
HeaderWords ==
    { <<70, 114, 111, 109, 58>>,
      <<84, 111, 58>>,
      <<67, 99, 58>>,
      <<83, 117, 98, 106, 101, 99, 116, 58>> }

\* ^ with re.MULTILINE: the start of the text or the position after a newline.
AtLineStart(s, i) == i = 1 \/ s[i - 1] = NEWLINE

\* ^(From:|To:|Cc:|Subject:) matches at i.
HeaderAt(s, i) == AtLineStart(s, i) /\ \E w \in HeaderWords : StartsWithAt(s, i, w)

\* The position after the match of ^(From:|To:|Cc:|Subject:)\s*.*$ at i: \s*
\* takes all the whitespace after the word, newlines too, and .* the rest of
\* the line it stops on.
HeaderEnd(s, i) ==
    LET w == CHOOSE x \in HeaderWords : StartsWithAt(s, i, x)
    IN  RunEnd(s, RunEnd(s, i + Len(w), "space"), "line")

\* re.sub(r"^(From:|To:|Cc:|Subject:)\s*.*$", "", s, flags=re.MULTILINE), from i on.
\* The text up to the leftmost match is kept, the match is dropped.
HeaderStarts(s) == {j \in 1..Len(s) : HeaderAt(s, j)}

RECURSIVE StripHeadersFrom(_, _, _)
StripHeadersFrom(s, starts, i) ==
    IF FirstFrom(starts, i) = 0 THEN SubSeq(s, i, Len(s))
    ELSE SubSeq(s, i, FirstFrom(starts, i) - 1)
         \o StripHeadersFrom(s, starts, HeaderEnd(s, FirstFrom(starts, i)))

StripHeaders(s, i) == StripHeadersFrom(s, HeaderStarts(s), i)

\* re.sub(r"---+\s*", "", s), from i on.
DashStarts(s) == {j \in 1..Len(s) : StartsWithAt(s, j, <<45, 45, 45>>)}

RECURSIVE StripDashesFrom(_, _, _)
StripDashesFrom(s, starts, i) ==
    IF FirstFrom(starts, i) = 0 THEN SubSeq(s, i, Len(s))
    ELSE SubSeq(s, i, FirstFrom(starts, i) - 1)
         \o StripDashesFrom(s, starts,
                RunEnd(s, RunEnd(s, FirstFrom(starts, i), "dash"), "space"))

StripDashes(s, i) == StripDashesFrom(s, DashStarts(s), i)

\* The `body` of should_process_chain, stripped.
TriageBody(chain_text) == Strip(StripDashes(StripHeaders(chain_text, 1), 1))

\* The list should_process_chain and run_agent_from_chain_text work on:
\* `people` when it is given (<<list>>), the parsed addresses when it is
\* None (<<>>).
AddressesOf(chain_text, people) ==
    IF people # <<>> THEN people[1] ELSE parse_emails_from_chain(chain_text)

\* if len(addresses) < MIN_ADDRESSES_FOR_TRIAGE
TooFewAddresses(addresses) == Len(addresses) < MIN_ADDRESSES_FOR_TRIAGE

\* should_process_chain(chain_text, people)
should_process_chain(chain_text, people) ==
    IF TooFewAddresses(AddressesOf(chain_text, people)) THEN FALSE
    ELSE IF SkipPatternFound(chain_text) THEN FALSE
    ELSE IF Len(TriageBody(chain_text)) < MIN_BODY_LENGTH THEN FALSE
    ELSE TRUE

\* The two messages run_agent_from_chain_text returns without calling run_agent.
NO_ADDRESSES == "(no email addresses found in chain)"
SKIPPED == "(skipped: chain unlikely to have significant relationships)"

\* Every chain is let through.
Gate_Open(chain_text, addresses) == TRUE

\* run_agent_from_chain_text goes on to run_agent: `if not addresses` and
\* `if not should_process_chain(chain_text, addresses)` both fall through.
Gate(chain_text, addresses) ==
    addresses # <<>> /\ should_process_chain(chain_text, <<addresses>>)

\* Chain texts: header lines, a low-signal phrase, a dash rule and a body of
\* one letter repeated, each present or not.
E_A == <<97, AT, 98, 46, 99>>
E_A_UP == <<65, AT, 98, 46, 99>>
E_C == <<99, AT, 100, 46, 101>>
FROM_HDR == <<70, 114, 111, 109, 58, 32>>
TO_HDR == <<84, 111, 58, 32>>
HeaderTexts ==
    {<<>>,
     FROM_HDR \o E_A \o <<NEWLINE>>,
     FROM_HDR \o E_A \o <<NEWLINE>> \o TO_HDR \o E_C \o <<NEWLINE>>,
     FROM_HDR \o E_A \o <<NEWLINE>> \o TO_HDR \o E_A_UP \o <<NEWLINE>>}
PhraseTexts ==
    {<<>>,
     <<79, 79, 79, 32>>,
     <<117, 110, 115, 117, 98, 115, 99, 114, 105, 98, 101, 32>>}
DashTexts == {<<>>, <<45, 45, 45, 32>>}
XRun(n) == [i \in 1..n |-> 120]
BodyTexts ==
    {XRun(MIN_BODY_LENGTH - 1),
     XRun(MIN_BODY_LENGTH),
     <<32>> \o XRun(MIN_BODY_LENGTH - 1) \o <<NEWLINE>>}
ChainTexts ==
    {h \o w \o d \o b : h \in HeaderTexts, w \in PhraseTexts, d \in DashTexts, b \in BodyTexts}

\* The `people` argument: None, or a list.
PeopleArgs ==
    {<<>>, <<<<>>>>, <<<<E_A>>>>, <<<<E_A, E_A>>>>, <<<<E_A, E_C>>>>, <<<<E_A, E_A_UP>>>>,
     <<<<A_UP, B_LO, C_NAME>>>>}

\* ------------------------------------------------------------------------
\* State
\* ------------------------------------------------------------------------

VARIABLES
    graph,              \* the Neo4j database: persons, edges
    aliases,            \* the loaded alias table (_aliases)
    menu,               \* tool calls the reasoning model may return in this run
    contents,           \* texts the reasoning model may return in this run
    budget,             \* tool calls the reasoning model may still issue
    active,             \* the threads that run in this run
    pc,                 \* per thread: idle, loop, dispatch, finish, done, error
    round_count,        \* per thread: round_count
    tool_calls,         \* per thread: tool calls of the last response not yet handled
    modified_pairs,     \* per thread: modified_pairs
    messages,           \* per thread: the transcript
    assistant_content,  \* per thread: assistant_msg.content (<<>> is None)
    result,             \* per thread: the value run_agent returned (<<>> before)
    model_calls,        \* per thread: chat.completions.create calls made
    inc_calls,          \* per thread: arguments of its increment_email_count_batch calls
    inc_delta,          \* per thread: what those calls added to each edge's email_count
    appended,           \* per thread: edges its tool calls appended a comment to
    touched,            \* per thread: raw pairs its handled tool calls named
    last,               \* the tool call handled last, and how it ended
    ops,                \* number of tool calls handled so far
    bf,                 \* the summarize_edges run (runs: runs started so far)
    od,                 \* the summarize_edge request (requests: requests so far)
    cache,              \* the module global _aliases of graph.py (set = FALSE is None)
    loads,              \* number of json.load calls on aliases.json so far
    rs,                 \* per caller of email_to_name: where it is, its argument, its result
    pool,               \* the worker pool of a summarize_edges run over a large graph
    texts,              \* per thread: message.content of each response so far
    triage,             \* the arguments of run_agent_from_chain_text, and the verdict
    cli,                \* the batch command of the CLI that feeds the threads
    clu,                \* the callers of ensure_clustered and _cluster_lock
    ins                 \* _cached_insights and the callers of compute_insights

vars == <<graph, aliases, menu, contents, budget, active, pc, round_count, tool_calls, modified_pairs,
          messages, assistant_content, result, model_calls, inc_calls, inc_delta,
          appended, touched, last, ops, bf, od, cache, loads, rs, pool, texts,
          triage, cli, clu, ins>>

\* The triage input, the CLI's batch loop, the clustering guard and the
\* insights cache.
hostVars == <<triage, cli, clu, ins>>

\* The state of the resolver's lazy load and of the worker pool, and hostVars.
sideVars == <<cache, loads, rs, pool, triage, cli, clu, ins>>

threadVars == <<pc, round_count, tool_calls, modified_pairs, messages,
                assistant_content, result, model_calls, inc_calls, inc_delta,
                appended, touched, last, ops, budget, active, contents, texts>>

NoCall == [name |-> "", args |-> [none |-> TRUE]]

\* _aliases = None, nobody in email_to_name, no pool.
NoCache == [set |-> FALSE, table |-> <<>>]
NoCaller == [pc |-> "idle", email |-> <<>>, ret |-> <<>>]
NoPool ==
    [max_workers |-> 0, skip_existing |-> TRUE, emails |-> <<>>, candidates |-> <<>>,
     pending |-> <<>>, running |-> {}, calls |-> <<>>, skipped |-> {},
     writes |-> <<>>, irregular |-> 0]

\* No chain text given, no batch command running, nobody in ensure_clustered.
NoTriage == [text |-> <<>>, people |-> <<>>, addresses |-> <<>>, verdict |-> <<>>]
NoCli == [command |-> "", row |-> 0, errors |-> {}, empty |-> {}, halted |-> FALSE]
\* No insights cached (_cached_insights is None), no invalidation yet, nobody
\* in compute_insights.
NoIns ==
    [cached |-> <<>>, epoch |-> 0, calls |-> 0, pc |-> [t \in Threads |-> "idle"],
     start |-> [t \in Threads |-> 0], data |-> [t \in Threads |-> <<>>],
     ret |-> [t \in Threads |-> <<>>]]

NoClu ==
    [lock |-> 0, pc |-> [t \in Threads |-> "idle"], force |-> [t \in Threads |-> FALSE],
     nodes |-> {}, clustered |-> {}, runs |-> 0, failed |-> 0, ops0 |-> 0]

InitHost ==
    /\ triage = NoTriage
    /\ cli = NoCli
    /\ clu = NoClu
    /\ ins = NoIns

InitSide ==
    /\ cache = NoCache
    /\ loads = 0
    /\ rs = [t \in Threads |-> NoCaller]
    /\ pool = NoPool

\* The state before any run_agent call, but for the database and the aliases.
InitRest(m, cs, b, act) ==
    /\ menu = m
    /\ contents = cs
    /\ budget = b
    /\ active = act
    /\ pc = [t \in Threads |-> "idle"]
    /\ round_count = [t \in Threads |-> 0]
    /\ tool_calls = [t \in Threads |-> <<>>]
    /\ modified_pairs = [t \in Threads |-> {}]
    /\ messages = [t \in Threads |-> <<>>]
    /\ assistant_content = [t \in Threads |-> <<>>]
    /\ texts = [t \in Threads |-> <<>>]
    /\ result = [t \in Threads |-> <<>>]
    /\ model_calls = [t \in Threads |-> 0]
    /\ inc_calls = [t \in Threads |-> <<>>]
    /\ inc_delta = [t \in Threads |-> <<>>]
    /\ appended = [t \in Threads |-> {}]
    /\ touched = [t \in Threads |-> {}]
    /\ last = [t |-> 0, call |-> NoCall, status |-> ""]
    /\ ops = 0
    /\ bf = [pc |-> "idle", futures |-> {}, batch |-> <<>>, count |-> 0, runs |-> 0]
    /\ od = [pc |-> "idle", source |-> <<>>, target |-> <<>>, requests |-> 0]
    /\ InitSide
    /\ InitHost

InitWith(m, cs, b, act) ==
    /\ graph = EmptyGraph
    /\ aliases \in AliasTables
    /\ InitRest(m, cs, b, act)

Init == InitWith(PairwiseCalls, TextOnly, MaxOps, Threads)

\* ------------------------------------------------------------------------
\* run_agent
\* ------------------------------------------------------------------------

\* A transcript entry that does not carry the id it was given.
Msg_NoId(role, id, status) == [role |-> role, id |-> <<0, 0>>, status |-> status]

Msg(role, id, status) == [role |-> role, id |-> id, status |-> status]

\* run_agent up to the while loop: upsert_persons, the system and user messages.
RunAgentStart(t, addrs) ==
    /\ graph' = upsert_persons(graph, aliases, addrs)
    /\ messages' = [messages EXCEPT ![t] =
                       <<Msg("system", <<0, 0>>, ""), Msg("user", <<0, 0>>, "")>>]
    /\ pc' = [pc EXCEPT ![t] = IF LoopContinues(round_count[t]) THEN "loop" ELSE "finish"]

\* run_agent called with the addresses of the thread.
Start(t) ==
    /\ pc[t] = "idle"
    /\ t \in active
    /\ \E addrs \in AddressLists : RunAgentStart(t, addrs)
    /\ UNCHANGED <<aliases, menu, contents, budget, active, round_count, tool_calls,
                   modified_pairs, assistant_content, texts, result, model_calls, inc_calls,
                   inc_delta, appended, touched, last, ops, bf, od>>
    /\ UNCHANGED sideVars

\* run_agent_from_chain_text(chain_text, people): the addresses, the two
\* early returns, else run_agent up to its loop. triage.verdict keeps what
\* should_process_chain answers for these arguments.
ChainStart(t) ==
    /\ pc[t] = "idle"
    /\ t \in active
    /\ \E chain_text \in ChainTexts, people \in PeopleArgs :
       \E addresses \in {AddressesOf(chain_text, people)} :
       \E go \in {Gate(chain_text, addresses)} :
           /\ triage' = [text |-> chain_text, people |-> people, addresses |-> addresses,
                         verdict |-> <<should_process_chain(chain_text, <<addresses>>)>>]
           /\ IF go
              THEN RunAgentStart(t, addresses) /\ result' = result
              ELSE /\ result' = [result EXCEPT ![t] =
                                    <<IF addresses = <<>> THEN NO_ADDRESSES ELSE SKIPPED>>]
                   /\ pc' = [pc EXCEPT ![t] = "done"]
                   /\ UNCHANGED <<graph, messages>>
    /\ UNCHANGED <<aliases, menu, contents, budget, active, round_count, tool_calls,
                   modified_pairs, assistant_content, texts, model_calls, inc_calls,
                   inc_delta, appended, touched, last, ops, bf, od>>
    /\ UNCHANGED <<cache, loads, rs, pool, cli, clu, ins>>

\* should_process_chain(chain_text, people) called on its own.
TriageCall ==
    /\ triage.verdict = <<>>
    /\ \E chain_text \in ChainTexts, people \in PeopleArgs :
           triage' = [text |-> chain_text, people |-> people,
                      addresses |-> AddressesOf(chain_text, people),
                      verdict |-> <<should_process_chain(chain_text, people)>>]
    /\ UNCHANGED <<graph, aliases, menu, bf, od>>
    /\ UNCHANGED threadVars
    /\ UNCHANGED <<cache, loads, rs, pool, cli, clu, ins>>

\* The tool_calls lists of a response: one call of the menu, or two.
ToolCallLists(m, n) ==
    (IF n >= 1 THEN {<<c>> : c \in m} ELSE {})
    \cup (IF n >= 2 THEN {<<c, c>> : c \in m} ELSE {})

\* One pass of the loop head: round_count += 1, the model call, the response
\* appended to the transcript, and the break on a response without tool calls.
Receive(t, calls, content) ==
    /\ round_count' = [round_count EXCEPT ![t] = @ + 1]
    /\ model_calls' = [model_calls EXCEPT ![t] = @ + 1]
    /\ assistant_content' = [assistant_content EXCEPT ![t] = content]
    /\ texts' = [texts EXCEPT ![t] = Append(@, content)]
    /\ messages' = [messages EXCEPT ![t] =
                       Append(@, Msg("assistant", <<round_count[t] + 1, 0>>,
                                     IF calls = <<>> THEN "text" ELSE "tool_calls"))]
    /\ tool_calls' = [tool_calls EXCEPT ![t] =
                         [k \in 1..Len(calls) |->
                             [id |-> <<round_count[t] + 1, k>>, name |-> calls[k].name,
                              args |-> calls[k].args]]]
    /\ budget' = budget - Len(calls)
    /\ pc' = [pc EXCEPT ![t] = IF calls = <<>> THEN "finish" ELSE "dispatch"]

ModelCall(t) ==
    /\ pc[t] = "loop"
    /\ LoopContinues(round_count[t])
    /\ \/ \E content \in contents : Receive(t, <<>>, content)
       \/ \E calls \in ToolCallLists(menu, budget),
             content \in ToolContents : Receive(t, calls, content)
    /\ UNCHANGED <<graph, aliases, menu, contents, active, modified_pairs, result, inc_calls,
                   inc_delta, appended, touched, last, ops, bf, od>>
    /\ UNCHANGED sideVars

\* A response that carries both tool calls and a text in message.content.
ModelCallText(t) ==
    /\ pc[t] = "loop"
    /\ LoopContinues(round_count[t])
    /\ \E calls \in ToolCallLists(menu, budget), content \in contents \ {<<>>} :
           Receive(t, calls, content)
    /\ UNCHANGED <<graph, aliases, menu, contents, active, modified_pairs, result, inc_calls,
                   inc_delta, appended, touched, last, ops, bf, od>>
    /\ UNCHANGED sideVars

\* The model call raises (network, timeout): run_agent ends with the exception.
ModelCallFails(t) ==
    /\ pc[t] = "loop"
    /\ LoopContinues(round_count[t])
    /\ round_count' = [round_count EXCEPT ![t] = @ + 1]
    /\ model_calls' = [model_calls EXCEPT ![t] = @ + 1]
    /\ pc' = [pc EXCEPT ![t] = OnException]
    /\ UNCHANGED <<graph, aliases, menu, contents, budget, active, tool_calls,
                   modified_pairs, messages,
                   assistant_content, texts, result, inc_calls, inc_delta, appended, touched,
                   last, ops, bf, od>>
    /\ UNCHANGED sideVars

\* Edges of h whose comments differ from what g holds (new edges included).
GrownEdges(g, h) ==
    {i \in 1..Len(h.edges) :
        i > Len(g.edges) \/ h.edges[i].comments # g.edges[i].comments}

\* The thread ends after every round.
AfterRound_Ends(rc) == "finish"

\* Where the thread goes after the for loop over the tool calls.
AfterRound(rc) == IF LoopContinues(rc) THEN "loop" ELSE "finish"

\* One iteration of `for tool_call in assistant_msg.tool_calls`.
Dispatch(t) ==
    /\ pc[t] = "dispatch"
    /\ tool_calls[t] # <<>>
    /\ \E call \in {Head(tool_calls[t])} :
       \E r \in {ToolCallStep(graph, aliases, modified_pairs[t], call)} :
           /\ last' = [t |-> t, call |-> [name |-> call.name, args |-> call.args],
                       status |-> IF r.raised THEN "raised" ELSE "ok"]
           /\ ops' = ops + 1
           /\ IF r.raised
              THEN /\ pc' = [pc EXCEPT ![t] = OnException]
                   /\ UNCHANGED <<graph, modified_pairs, messages, tool_calls,
                                  appended, touched>>
              ELSE /\ graph' = r.g
                   /\ modified_pairs' = [modified_pairs EXCEPT ![t] = r.mp]
                   /\ touched' = [touched EXCEPT ![t] =
                                     @ \cup ToolCallStep(graph, aliases, {}, call).mp]
                   /\ appended' = [appended EXCEPT ![t] = @ \cup GrownEdges(graph, r.g)]
                   /\ messages' = [messages EXCEPT ![t] =
                                      Append(@, Msg("tool", call.id, "ok"))]
                   /\ tool_calls' = [tool_calls EXCEPT ![t] = Tail(@)]
                   /\ pc' = [pc EXCEPT ![t] =
                                IF Tail(tool_calls[t]) # <<>> THEN "dispatch"
                                ELSE AfterRound(round_count[t])]
    /\ UNCHANGED <<aliases, menu, contents, budget, active, round_count,
                   assistant_content, texts, result,
                   model_calls, inc_calls, inc_delta, bf, od>>
    /\ UNCHANGED sideVars

\* One iteration of the for loop whose session.execute_write raises (the
\* database is unreachable, the transaction fails): the transaction writes
\* nothing and the exception leaves run_agent.
StoreWriteFails(t) ==
    /\ pc[t] = "dispatch"
    /\ tool_calls[t] # <<>>
    /\ \E call \in {Head(tool_calls[t])} :
          /\ ~ToolCallStep(graph, aliases, modified_pairs[t], call).raised
          /\ last' = [t |-> t, call |-> [name |-> call.name, args |-> call.args],
                      status |-> "raised"]
    /\ ops' = ops + 1
    /\ pc' = [pc EXCEPT ![t] = OnException]
    /\ UNCHANGED <<graph, aliases, menu, contents, budget, active, round_count,
                   tool_calls, modified_pairs, messages, assistant_content, texts, result,
                   model_calls, inc_calls, inc_delta, appended, touched, bf, od>>
    /\ UNCHANGED sideVars

\* After the loop: the one increment_email_count_batch transaction, then the
\* summary is returned.
Finish(t) ==
    /\ pc[t] = "finish"
    /\ \E pairs_list \in {SetToList(modified_pairs[t])} :
       \E g2 \in {IF ShouldIncrement(modified_pairs[t])
                  THEN increment_email_count_batch(graph, aliases, pairs_list)
                  ELSE graph} :
           /\ graph' = g2
           /\ inc_calls' = [inc_calls EXCEPT ![t] =
                               IF ShouldIncrement(modified_pairs[t])
                               THEN Append(@, pairs_list) ELSE @]
           /\ inc_delta' = [inc_delta EXCEPT ![t] =
                               [i \in 1..Len(graph.edges) |->
                                   g2.edges[i].email_count - graph.edges[i].email_count]]
    /\ result' = [result EXCEPT ![t] = <<SummaryOf(assistant_content[t])>>]
    /\ pc' = [pc EXCEPT ![t] = "done"]
    /\ UNCHANGED <<aliases, menu, contents, budget, active, round_count, tool_calls,
                   modified_pairs, messages, assistant_content, texts, model_calls, appended,
                   touched, last, ops, bf, od>>
    /\ UNCHANGED sideVars

\* ------------------------------------------------------------------------
\* summarize_edges (agent.py) and summarize_edge (backend/main.py)
\* ------------------------------------------------------------------------

\* `emails` arguments of summarize_edges: None, or a filter.
EmailFilters == {<<>>, <<B_LO>>}

\* What the model returns as a summary: a text or a blank string.
RawSummaries == SummaryTexts \cup {" "}

\* (source, target) of a summarize_edge request.
OnDemandPairs == {<<B_LO, A_LO>>, <<A_UP, B_LO>>}

SeqToSet(q) == {q[i] : i \in 1..Len(q)}

\* summarize_edges up to the submission of the tasks; it returns 0 at once
\* when there is no candidate.
SummarizeStart ==
    /\ bf.pc = "idle"
    /\ bf.runs + od.requests < MaxSummaries
    /\ \E emails \in EmailFilters, skip_existing \in BOOLEAN :
          LET to_process == ToProcess(graph, emails, skip_existing)
          IN  bf' = IF to_process = <<>>
                    THEN [bf EXCEPT !.runs = @ + 1, !.count = 0]
                    ELSE [pc |-> "running", futures |-> SeqToSet(to_process),
                          batch |-> <<>>, count |-> 0, runs |-> bf.runs + 1]
    /\ UNCHANGED <<graph, aliases, menu, od>>
    /\ UNCHANGED <<threadVars, sideVars>>

\* The consumer loop body for the completed future f whose result is `res`
\* (<<>> is None): append to the batch and flush a full batch.
Consume(f, res) ==
    \E batch2 \in {IF res = <<>> THEN bf.batch ELSE Append(bf.batch, res[1])} :
    \E full \in {res # <<>> /\ BatchFull(batch2)} :
        /\ graph' = IF full THEN FlushGraph(graph, aliases, batch2) ELSE graph
        /\ bf' = [bf EXCEPT !.futures = @ \ {f},
                            !.batch = IF full THEN <<>> ELSE batch2,
                            !.count = IF full THEN @ + Len(batch2) ELSE @]

\* _summarize_one_edge for one edge, in completion order: a non-blank text
\* gives (email_a, email_b, summary), a blank one or an exception gives None.
SummarizeComplete ==
    /\ bf.pc = "running"
    /\ \E f \in bf.futures :
          \/ \E out \in RawSummaries :
             \E res \in {summarize_one_edge(f, out)} : Consume(f, res)
          \/ Consume(f, <<>>)
    /\ UNCHANGED <<aliases, menu, od>>
    /\ UNCHANGED <<threadVars, sideVars>>

\* The final flush_batch() and the return of count.
SummarizeFinish ==
    /\ bf.pc = "running"
    /\ bf.futures = {}
    /\ graph' = FlushGraph(graph, aliases, bf.batch)
    /\ bf' = [bf EXCEPT !.pc = "idle", !.batch = <<>>,
                        !.count = @ + Len(bf.batch)]
    /\ UNCHANGED <<aliases, menu, od>>
    /\ UNCHANGED <<threadVars, sideVars>>

\* summarize_edge, step 1: read the comments; 404 when there is none.
OnDemandRead ==
    /\ od.pc = "idle"
    /\ bf.runs + od.requests < MaxSummaries
    /\ \E st \in OnDemandPairs :
          LET results == OnDemandComments(graph, st[1], st[2])
          IN  od' = IF results = {} \/ <<>> \in results
                    THEN [od EXCEPT !.requests = @ + 1]
                    ELSE [pc |-> "llm", source |-> st[1], target |-> st[2],
                          requests |-> od.requests + 1]
    /\ UNCHANGED <<graph, aliases, menu, bf>>
    /\ UNCHANGED <<threadVars, sideVars>>

\* summarize_edge, steps 2 and 3: the model's text, stripped, is written.
OnDemandWrite ==
    /\ od.pc = "llm"
    /\ \E out \in RawSummaries :
          graph' = SetSummary(graph, od.source, od.target, StripText(out))
    /\ od' = [pc |-> "idle", source |-> <<>>, target |-> <<>>,
              requests |-> od.requests]
    /\ UNCHANGED <<aliases, menu, bf>>
    /\ UNCHANGED <<threadVars, sideVars>>

\* summarize_edge, step 2 raises: HTTP 500, nothing written.
OnDemandFails ==
    /\ od.pc = "llm"
    /\ od' = [pc |-> "idle", source |-> <<>>, target |-> <<>>,
              requests |-> od.requests]
    /\ UNCHANGED <<graph, aliases, menu, bf>>
    /\ UNCHANGED <<threadVars, sideVars>>

\* ------------------------------------------------------------------------
\* summarize_edges over a graph of more than SUMMARY_WRITE_BATCH_SIZE edges,
\* with its ThreadPoolExecutor
\* ------------------------------------------------------------------------

\* The people of the large graph: the names "A", "B", ...
BackfillPeople == [k \in 1..MaxPeople |-> <<64 + k>>]

\* The graph after extraction threads appended one comment to every pair of
\* BackfillPeople, and one for the pair of the first person with itself.
\* (The test on g.persons, never true after upsert_persons, makes TLC compute
\* g at every step instead of piling up unevaluated calls.)
RECURSIVE SeedLoop(_, _, _)
SeedLoop(g, people, k) ==
    IF k > Len(people) * Len(people) \/ g.persons = {} THEN g
    ELSE SeedLoop(IF RowOf(k, people) < ColOf(k, people) \/ k = 1
                  THEN append_comment(g, <<>>, people[RowOf(k, people)],
                                      people[ColOf(k, people)], "c1")
                  ELSE g,
                  people, k + 1)

\* ... and after an earlier summarize_edges run wrote two summaries.
BackfillGraph ==
    set_summary_batch(
        SeedLoop(upsert_persons(EmptyGraph, <<>>, BackfillPeople), BackfillPeople, 1),
        <<>>,
        << <<BackfillPeople[1], BackfillPeople[2], "s1">>,
           <<BackfillPeople[1], BackfillPeople[3], "s1">> >>)

\* `emails` and `max_workers` arguments of the run.
BackfillFilters == {<<>>, <<BackfillPeople[MaxPeople]>>}
WorkerCounts == {1, 2}

\* Position of x in the sequence q of distinct elements.
IndexOf(q, x) == CHOOSE i \in 1..Len(q) : q[i] = x

\* A worker is free whatever the number of running tasks.
WorkerFree_Unbounded(p) == TRUE

\* ThreadPoolExecutor(max_workers): a task starts only on a free worker.
WorkerFree(p) == Cardinality(p.running) < p.max_workers

\* The task f is the one among the running that was submitted first.
Oldest(p, f) ==
    \A h \in p.running : IndexOf(p.candidates, f) <= IndexOf(p.candidates, h)

\* summarize_edges up to executor.submit for every candidate; it returns 0 at
\* once when there is none.
PoolStart ==
    /\ bf.pc = "idle"
    /\ bf.runs = 0
    /\ \E emails \in BackfillFilters, skip_existing \in BOOLEAN, w \in WorkerCounts :
       \E to_process \in {ToProcess(graph, emails, skip_existing)} :
          /\ bf' = IF to_process = <<>>
                    THEN [bf EXCEPT !.runs = @ + 1, !.count = 0]
                    ELSE [pc |-> "running", futures |-> SeqToSet(to_process),
                          batch |-> <<>>, count |-> 0, runs |-> bf.runs + 1]
          /\ pool' = [NoPool EXCEPT !.max_workers = w, !.skip_existing = skip_existing,
                                    !.emails = emails, !.candidates = to_process,
                                    !.pending = to_process]
    /\ UNCHANGED <<graph, aliases, menu, od, cache, loads, rs>>
    /\ UNCHANGED threadVars
    /\ UNCHANGED hostVars

\* A free worker takes the next submitted task and sends its model call.
WorkerTake ==
    /\ bf.pc = "running"
    /\ pool.pending # <<>>
    /\ WorkerFree(pool)
    /\ pool' = [pool EXCEPT !.pending = Tail(@),
                            !.running = @ \cup {Head(pool.pending)},
                            !.calls = Append(@, Head(pool.pending))]
    /\ UNCHANGED <<graph, aliases, menu, bf, od, cache, loads, rs>>
    /\ UNCHANGED threadVars
    /\ UNCHANGED hostVars

\* A running task ends and as_completed hands it to the consumer loop.  At
\* most MaxIrregular tasks of a run fail (a blank answer, an exception) or end
\* before a task submitted earlier.
TaskEnds(f, res, regular) ==
    /\ regular \/ pool.irregular < MaxIrregular
    /\ Consume(f, res)
    /\ pool' = [pool EXCEPT
                   !.running = @ \ {f},
                   !.skipped = IF res = <<>> THEN @ \cup {f} ELSE @,
                   !.writes = IF bf'.count > bf.count
                              THEN Append(@, Append(bf.batch, res[1])) ELSE @,
                   !.irregular = IF regular THEN @ ELSE @ + 1]

WorkerDone ==
    /\ bf.pc = "running"
    /\ \E f \in pool.running :
          \/ \E out \in RawSummaries :
             \E res \in {summarize_one_edge(f, out)} :
                TaskEnds(f, res, Oldest(pool, f) /\ StripText(out) # "")
          \/ TaskEnds(f, <<>>, FALSE)
    /\ UNCHANGED <<aliases, menu, od, cache, loads, rs>>
    /\ UNCHANGED threadVars
    /\ UNCHANGED hostVars

\* All futures are consumed: the final flush_batch() and the return of count.
PoolFinish ==
    /\ bf.pc = "running"
    /\ bf.futures = {}
    /\ graph' = FlushGraph(graph, aliases, bf.batch)
    /\ bf' = [bf EXCEPT !.pc = "idle", !.batch = <<>>,
                        !.count = @ + Len(bf.batch)]
    /\ pool' = [pool EXCEPT !.writes = IF bf.batch = <<>> THEN @
                                       ELSE Append(@, bf.batch)]
    /\ UNCHANGED <<aliases, menu, od, cache, loads, rs>>
    /\ UNCHANGED threadVars
    /\ UNCHANGED hostVars

\* ------------------------------------------------------------------------
\* email_to_name called from several threads before _aliases is loaded
\* ------------------------------------------------------------------------

\* Arguments of the calls: two emails (one has an alias) and a name.
ResolverEmails == {B_LO, A_UP, C_NAME}

\* os.path.exists finds aliases.json: the table `aliases` is what it holds,
\* and no file stands for the empty table.
AliasFileExists == aliases # <<>>

\* Lines 13-20: strip, return a name as it is, lowercase an email.
ResolveCall(t) ==
    /\ rs[t].pc = "idle"
    /\ \E email \in ResolverEmails :
          rs' = [rs EXCEPT ![t] =
                    IF ~HasAt(Strip(email))
                    THEN [pc |-> "done", email |-> email, ret |-> <<Strip(email)>>]
                    ELSE [pc |-> "test", email |-> email, ret |-> <<>>]]
    /\ UNCHANGED <<graph, aliases, menu, bf, od, cache, loads, pool>>
    /\ UNCHANGED threadVars
    /\ UNCHANGED hostVars

\* Line 21: if _aliases is None
ResolveTest(t) ==
    /\ rs[t].pc = "test"
    /\ rs' = [rs EXCEPT ![t].pc = IF cache.set THEN "read" ELSE "init"]
    /\ UNCHANGED <<graph, aliases, menu, bf, od, cache, loads, pool>>
    /\ UNCHANGED threadVars
    /\ UNCHANGED hostVars

\* Lines 22-25: _aliases = {}, then the search for the file.
ResolveInit(t) ==
    /\ rs[t].pc = "init"
    /\ cache' = [set |-> TRUE, table |-> <<>>]
    /\ rs' = [rs EXCEPT ![t].pc = IF AliasFileExists THEN "load" ELSE "read"]
    /\ UNCHANGED <<graph, aliases, menu, bf, od, loads, pool>>
    /\ UNCHANGED threadVars
    /\ UNCHANGED hostVars

\* Lines 26-28: _aliases = json.load(f)
ResolveLoad(t) ==
    /\ rs[t].pc = "load"
    /\ cache' = [set |-> TRUE, table |-> aliases]
    /\ loads' = loads + 1
    /\ rs' = [rs EXCEPT ![t].pc = "read"]
    /\ UNCHANGED <<graph, aliases, menu, bf, od, pool>>
    /\ UNCHANGED threadVars
    /\ UNCHANGED hostVars

\* Lines 26-28 when the file is there but open() or json.load raises (no
\* permission, not JSON): nothing catches it; _aliases stays the {} of line 22.
ResolveLoadFails(t) ==
    /\ rs[t].pc = "load"
    /\ rs' = [rs EXCEPT ![t].pc = "raised"]
    /\ UNCHANGED <<graph, aliases, menu, bf, od, cache, loads, pool>>
    /\ UNCHANGED threadVars
    /\ UNCHANGED hostVars

\* Line 29: return _aliases.get(email_lower, email_lower)
ResolveReturn(t) ==
    /\ rs[t].pc = "read"
    /\ rs' = [rs EXCEPT ![t].pc = "done",
                        ![t].ret = <<AliasGet(cache.table, Lower(Strip(rs[t].email)))>>]
    /\ UNCHANGED <<graph, aliases, menu, bf, od, cache, loads, pool>>
    /\ UNCHANGED threadVars
    /\ UNCHANGED hostVars

\* Identifiers handed to email_to_name one call after the other: emails in
\* both cases, names in both cases, and identifiers padded with a blank.
ResolveInputs ==
    {A_LO, A_UP, B_LO, <<66, AT>>, C_NAME, <<99>>, <<32, 67>>, <<66, AT, 32>>}

\* A whole call of email_to_name while no other call is under way: the
\* first call for an email loads the table, every call answers from it.
ResolveWhole(t) ==
    /\ rs[t].pc = "idle"
    /\ \A u \in Threads : rs[u].pc \in {"idle", "done"}
    /\ \E email \in ResolveInputs :
       \E table \in {IF cache.set THEN cache.table ELSE aliases} :
           /\ rs' = [rs EXCEPT ![t] = [pc |-> "done", email |-> email,
                                       ret |-> <<email_to_name(table, email)>>]]
           /\ cache' = IF HasAt(Strip(email)) THEN [set |-> TRUE, table |-> table] ELSE cache
           /\ loads' = IF HasAt(Strip(email)) /\ ~cache.set /\ AliasFileExists
                       THEN loads + 1 ELSE loads
    /\ UNCHANGED <<graph, aliases, menu, bf, od, pool>>
    /\ UNCHANGED threadVars
    /\ UNCHANGED hostVars

\* ------------------------------------------------------------------------
\* The batch commands of the CLI (agent/main.py)
\* ------------------------------------------------------------------------

\* The commands that loop over threads; row r of the batch is thread r.
BatchCommands == {"ingest-fake", "ingest-csv"}
LastRow == Cardinality(Threads)

\* The loop goes on to the row after r; past the last row it ends.
NextRow(r) == IF r < LastRow THEN {r + 1} ELSE {}

cliFrame == <<graph, aliases, menu, contents, budget, pc, round_count, tool_calls,
              modified_pairs, messages, assistant_content, texts, result, model_calls,
              inc_calls, inc_delta, appended, touched, last, ops, bf, od,
              cache, loads, rs, pool, triage, clu, ins>>

\* main() reads the command and enters its loop at the first row.
CliStart ==
    /\ cli.command = ""
    /\ \E c \in BatchCommands :
           cli' = [cli EXCEPT !.command = c, !.row = 1]
    /\ active' = {1}
    /\ UNCHANGED cliFrame

\* The call for the current row returned: its summary is printed (ingest-fake)
\* or dropped (ingest-csv), and the loop goes on.
CliRowDone ==
    /\ cli.row \in active
    /\ pc[cli.row] = "done"
    /\ cli' = [cli EXCEPT !.row = @ + 1]
    /\ active' = NextRow(cli.row)
    /\ UNCHANGED cliFrame

\* The call for the current row raised. ingest-csv catches it, writes
\* "Error on row" and goes on; ingest-fake has no try: the exception leaves
\* the loop and main().
CliRowFails ==
    /\ cli.row \in active
    /\ pc[cli.row] = "error"
    /\ IF cli.command = "ingest-csv"
       THEN /\ cli' = [cli EXCEPT !.errors = @ \cup {cli.row}, !.row = @ + 1]
            /\ active' = NextRow(cli.row)
       ELSE /\ cli' = [cli EXCEPT !.halted = TRUE]
            /\ active' = {}
    /\ UNCHANGED cliFrame

\* ingest-csv, lines 110-112, before the try: a cell that is not a string
\* (.strip()) or not a Python literal (ast.literal_eval) raises, and the
\* exception leaves the loop and main().
CliRowUnreadable ==
    /\ cli.command = "ingest-csv"
    /\ cli.row \in active
    /\ pc[cli.row] = "idle"
    /\ cli' = [cli EXCEPT !.halted = TRUE]
    /\ active' = {}
    /\ UNCHANGED cliFrame

\* ingest-csv, lines 113-115: a row with an empty chain text is passed over.
CliRowEmpty ==
    /\ cli.command = "ingest-csv"
    /\ cli.row \in active
    /\ pc[cli.row] = "idle"
    /\ cli' = [cli EXCEPT !.empty = @ \cup {cli.row}, !.row = @ + 1]
    /\ active' = NextRow(cli.row)
    /\ UNCHANGED cliFrame

\* ------------------------------------------------------------------------
\* ensure_clustered (backend/clustering.py); its callers are request handlers
\* ------------------------------------------------------------------------

\* _cluster_lock is taken by whoever asks.
LockFree_Always(holder) == TRUE

\* _cluster_lock.acquire() succeeds: nobody holds the lock.
LockFree(holder) == holder = 0

cluFrame == <<graph, aliases, menu, contents, budget, active, pc, round_count, tool_calls,
              modified_pairs, messages, assistant_content, texts, result, model_calls,
              inc_calls, inc_delta, appended, touched, last, ops, bf, od,
              cache, loads, rs, pool, triage, cli, ins>>

\* A request calls ensure_clustered(driver, force) and arrives at the with
\* statement.
ClusterCall(t) ==
    /\ clu.pc[t] = "idle"
    /\ \E force \in BOOLEAN :
           clu' = [clu EXCEPT !.pc[t] = "wait", !.force[t] = force]
    /\ UNCHANGED cluFrame

\* with _cluster_lock: the caller waits until the lock is free and takes it.
ClusterAcquire(t) ==
    /\ clu.pc[t] = "wait"
    /\ LockFree(clu.lock)
    /\ clu' = [clu EXCEPT !.pc[t] = "held", !.lock = t]
    /\ UNCHANGED cluFrame

\* The count query and the two early returns (the lock is released on the
\* way out); otherwise run_louvain starts and fetches the graph.
ClusterCount(t) ==
    /\ clu.pc[t] = "held"
    /\ \E total \in {Cardinality(graph.persons)},
          with_cluster \in {Cardinality(graph.persons \cap clu.clustered)} :
           IF total = 0 \/ (~clu.force[t] /\ with_cluster >= total)
           THEN clu' = [clu EXCEPT !.pc[t] = "done",
                                   !.lock = IF @ = t THEN 0 ELSE @]
           ELSE clu' = [clu EXCEPT !.pc[t] = "louvain", !.nodes = graph.persons,
                                   !.ops0 = ops]
    /\ UNCHANGED cluFrame

\* run_louvain ends without setting p.cluster on any node.
ClusterWrite_Unwritten(t) ==
    /\ clu.pc[t] = "louvain"
    /\ clu' = [clu EXCEPT !.pc[t] = "done", !.runs = @ + 1,
                          !.lock = IF @ = t THEN 0 ELSE @]
    /\ UNCHANGED cluFrame

\* run_louvain ends: write_clusters sets p.cluster on the fetched nodes, and
\* leaving the with statement releases the lock.
ClusterWrite(t) ==
    /\ clu.pc[t] = "louvain"
    /\ clu' = [clu EXCEPT !.pc[t] = "done", !.clustered = @ \cup clu.nodes,
                          !.runs = @ + 1, !.lock = IF @ = t THEN 0 ELSE @]
    /\ UNCHANGED cluFrame

\* run_louvain raises (a query fails): nothing is written, and leaving the
\* with statement releases the lock.
ClusterFails(t) ==
    /\ clu.pc[t] = "louvain"
    /\ clu' = [clu EXCEPT !.pc[t] = "done", !.failed = @ + 1,
                          !.lock = IF @ = t THEN 0 ELSE @]
    /\ UNCHANGED cluFrame

\* ------------------------------------------------------------------------
\* Specifications
\* ------------------------------------------------------------------------

Next ==
    \/ \E t \in Threads : Start(t)
    \/ \E t \in Threads : ModelCall(t)
    \/ \E t \in Threads : ModelCallFails(t)
    \/ \E t \in Threads : Dispatch(t)
    \/ \E t \in Threads : Finish(t)
    \/ SummarizeStart
    \/ SummarizeComplete
    \/ SummarizeFinish
    \/ OnDemandRead
    \/ OnDemandWrite
    \/ OnDemandFails

\* Two threads whose model returns pairwise tool calls.
Spec == Init /\ [][Next]_vars

\* One thread whose model returns tool calls of the three shapes.
InitFanout == InitWith(FanoutCalls, TextOnly, MaxOps, {1})
SpecFanout == InitFanout /\ [][Next]_vars

\* One thread whose model also returns malformed and unknown tool calls.
InitMalformed ==
    InitWith(MalformedCalls \cup {Pairwise(A_LO, B_LO, "c1")}, TextOrNone, MaxOps, {1})
SpecMalformed == InitMalformed /\ [][Next]_vars

\* One thread whose model can answer every call with tool calls: the budget
\* lets a call after the last permitted one carry a tool call too.
InitRounds == InitWith(RoundsCalls, TextOnly, MAX_AGENT_ROUNDS + 1, {1})
SpecRounds == InitRounds /\ [][Next]_vars

\* Two threads whose model returns a pairwise call or one without to_person,
\* and whose store transactions may fail.
AbortCalls ==
    { Pairwise(A_LO, B_LO, "c1"),
      [name |-> "add_relationship_comment",
       args |-> [from_person |-> A_LO, comment |-> "c1"]] }
NextAbort ==
    \/ Next
    \/ \E t \in Threads : StoreWriteFails(t)
InitAbort == InitWith(AbortCalls, TextOnly, MaxOps, Threads)
SpecAbort == InitAbort /\ [][NextAbort]_vars

\* The threads' first calls of email_to_name, one call each, interleaved at
\* the statements of the function.
NextAliases ==
    \/ \E t \in Threads : ResolveCall(t)
    \/ \E t \in Threads : ResolveTest(t)
    \/ \E t \in Threads : ResolveInit(t)
    \/ \E t \in Threads : ResolveLoad(t)
    \/ \E t \in Threads : ResolveReturn(t)
SpecAliases == Init /\ [][NextAliases]_vars

\* One summarize_edges run over the large graph, no thread running.
NextBackfill ==
    \/ PoolStart
    \/ WorkerTake
    \/ WorkerDone
    \/ PoolFinish
InitBackfill ==
    /\ graph = BackfillGraph
    /\ aliases = <<>>
    /\ InitRest({}, TextOnly, 0, {})
SpecBackfill == InitBackfill /\ [][NextBackfill]_vars

\* One thread on a store that holds the four persons (an earlier thread
\* upserted them), whose model returns broadcasts and a group.
InitBroadcast ==
    /\ aliases \in AliasTables
    /\ graph = upsert_persons(EmptyGraph, aliases, FourAddresses)
    /\ InitRest(BroadcastCalls, TextOnly, MaxOps, {1})
NextOne ==
    \/ Start(1)
    \/ ModelCall(1)
    \/ ModelCallFails(1)
    \/ Dispatch(1)
    \/ Finish(1)
SpecBroadcast == InitBroadcast /\ [][NextOne]_vars

\* One thread on a store that holds the four persons, whose model returns
\* group calls, the same one twice among them.
InitGroup ==
    /\ aliases \in AliasTables
    /\ graph = upsert_persons(EmptyGraph, aliases, FourAddresses)
    /\ InitRest(GroupCalls, TextOnly, MaxOps, {1})
SpecGroup == InitGroup /\ [][NextOne]_vars

\* The threads' calls of email_to_name when reading the alias file may fail.
NextAliasFail ==
    \/ \E t \in Threads : ResolveCall(t)
    \/ \E t \in Threads : ResolveTest(t)
    \/ \E t \in Threads : ResolveInit(t)
    \/ \E t \in Threads : ResolveLoad(t)
    \/ \E t \in Threads : ResolveLoadFails(t)
    \/ \E t \in Threads : ResolveReturn(t)
SpecAliasFail == Init /\ [][NextAliasFail]_vars

\* A batch command of the CLI over two threads, one after the other.
NextCli ==
    \/ CliStart
    \/ CliRowDone
    \/ CliRowFails
    \/ CliRowUnreadable
    \/ CliRowEmpty
    \/ \E t \in Threads : Start(t)
    \/ \E t \in Threads : ModelCall(t)
    \/ \E t \in Threads : ModelCallFails(t)
    \/ \E t \in Threads : Dispatch(t)
    \/ \E t \in Threads : Finish(t)
InitCli == InitWith({Pairwise(A_LO, B_LO, "c1")}, TextOnly, MaxOps, {})
SpecCli == InitCli /\ [][NextCli]_vars

\* Two requests that call ensure_clustered while one thread is extracted.
NextCluster ==
    \/ \E t \in Threads : ClusterCall(t)
    \/ \E t \in Threads : ClusterAcquire(t)
    \/ \E t \in Threads : ClusterCount(t)
    \/ \E t \in Threads : ClusterWrite(t)
    \/ \E t \in Threads : ClusterFails(t)
    \/ Start(1)
    \/ ModelCall(1)
    \/ Dispatch(1)
    \/ Finish(1)
InitCluster == InitWith({Pairwise(A_LO, B_LO, "c1")}, TextOnly, MaxOps, {1})
SpecCluster == InitCluster /\ [][NextCluster]_vars

\* One thread and the summarizer, with an alias table that may also be one
\* whose value is an email address written with a capital ("b@" -> "C@").
C_UP == <<67, AT>>
EmailAliasTables == AliasTables \cup {(B_LO :> C_UP)}
InitIdem ==
    /\ graph = EmptyGraph
    /\ aliases \in EmailAliasTables
    /\ InitRest({Pairwise(A_LO, B_LO, "c1")}, TextOnly, MaxOps, {1})
SpecIdem == InitIdem /\ [][Next]_vars

\* Two summarize_edges runs, one after the other, and summarize_edge requests,
\* on a graph that no extraction thread writes to: the graph after threads
\* appended one comment to (a@, b@) and one to (C, a@).
RerunGraph ==
    append_comment(
        append_comment(upsert_persons(EmptyGraph, <<>>, <<A_LO, B_LO, C_NAME>>),
                       <<>>, A_LO, B_LO, "c1"),
        <<>>, C_NAME, A_LO, "c1")

\* The runs of summarize_edges that are started.
RERUNS == 2

\* summarize_edges up to executor.submit for every candidate, for the first
\* run and for the second; it returns 0 at once when there is no candidate.
RerunStart ==
    /\ bf.pc = "idle"
    /\ bf.runs < RERUNS
    /\ \E emails \in EmailFilters, skip_existing \in BOOLEAN, w \in WorkerCounts :
       \E to_process \in {ToProcess(graph, emails, skip_existing)} :
          /\ bf' = IF to_process = <<>>
                    THEN [bf EXCEPT !.runs = @ + 1, !.count = 0]
                    ELSE [pc |-> "running", futures |-> SeqToSet(to_process),
                          batch |-> <<>>, count |-> 0, runs |-> bf.runs + 1]
          /\ pool' = [NoPool EXCEPT !.max_workers = w, !.skip_existing = skip_existing,
                                    !.emails = emails, !.candidates = to_process,
                                    !.pending = to_process]
    /\ UNCHANGED <<graph, aliases, menu, od, cache, loads, rs>>
    /\ UNCHANGED threadVars
    /\ UNCHANGED hostVars

\* summarize_edge, step 1, requested once between the runs.
RerunOnDemandRead ==
    /\ od.pc = "idle"
    /\ od.requests = 0
    /\ bf.pc = "idle"
    /\ bf.runs = 1
    /\ \E st \in OnDemandPairs :
          LET results == OnDemandComments(graph, st[1], st[2])
          IN  od' = IF results = {} \/ <<>> \in results
                    THEN [od EXCEPT !.requests = @ + 1]
                    ELSE [pc |-> "llm", source |-> st[1], target |-> st[2],
                          requests |-> od.requests + 1]
    /\ UNCHANGED <<graph, aliases, menu, bf>>
    /\ UNCHANGED <<threadVars, sideVars>>

NextRerun ==
    \/ RerunStart
    \/ WorkerTake
    \/ WorkerDone
    \/ PoolFinish
    \/ RerunOnDemandRead
    \/ OnDemandWrite
    \/ OnDemandFails
InitRerun ==
    /\ graph = RerunGraph
    /\ aliases = <<>>
    /\ InitRest({}, TextOnly, 0, {})
SpecRerun == InitRerun /\ [][NextRerun]_vars

\* ------------------------------------------------------------------------
\* compute_insights and invalidate_cache (backend/insights.py), get_full_graph
\* (backend/main.py)
\* ------------------------------------------------------------------------

\* The compute_insights calls of a run.
MaxInsightsCalls == 3

insFrame == <<graph, aliases, menu, contents, budget, active, pc, round_count, tool_calls,
              modified_pairs, messages, assistant_content, texts, result, model_calls,
              inc_calls, inc_delta, appended, touched, last, ops, bf, od,
              cache, loads, rs, pool, triage, cli>>

\* What fetch_graph_data reads now: the graph as of the invalidations and
\* the cluster writes that have happened. The insights computed from it are
\* named by it.
GraphData == [epoch |-> ins.epoch, runs |-> clu.runs]

\* A request calls compute_insights(driver); ins.start keeps the number of
\* invalidations that had returned by then.
InsightsCall(t) ==
    /\ ins.pc[t] \in {"idle", "done"}
    /\ ins.calls < MaxInsightsCalls
    /\ ins' = [ins EXCEPT !.pc[t] = "check", !.start[t] = ins.epoch, !.data[t] = <<>>,
                          !.ret[t] = <<>>, !.calls = @ + 1]
    /\ UNCHANGED <<insFrame, clu>>

\* The first `with _cache_lock` block: the cached insights are returned if
\* there are any.
InsightsCheck(t) ==
    /\ ins.pc[t] = "check"
    /\ ins' = IF ins.cached # <<>>
              THEN [ins EXCEPT !.pc[t] = "done", !.ret[t] = ins.cached]
              ELSE [ins EXCEPT !.pc[t] = "fetch"]
    /\ UNCHANGED <<insFrame, clu>>

\* fetch_graph_data outside the lock, and the return of [] for a graph
\* without nodes (nothing is cached then).
InsightsFetch(t) ==
    /\ ins.pc[t] = "fetch"
    /\ ins' = IF graph.persons = {}
              THEN [ins EXCEPT !.pc[t] = "done"]
              ELSE [ins EXCEPT !.pc[t] = "store", !.data[t] = <<GraphData>>]
    /\ UNCHANGED <<insFrame, clu>>

\* The insights are computed; the second `with _cache_lock` block stores
\* them and they are returned.
InsightsStore(t) ==
    /\ ins.pc[t] = "store"
    /\ ins' = [ins EXCEPT !.pc[t] = "done", !.cached = ins.data[t],
                          !.ret[t] = ins.data[t]]
    /\ UNCHANGED <<insFrame, clu>>

\* invalidate_cache(): _cached_insights = None under the lock.
invalidate_cache(i) == [i EXCEPT !.cached = <<>>, !.epoch = @ + 1]

\* get_full_graph up to the with statement of ensure_clustered: with
\* ?recluster=1 the cache is invalidated first and the call is forced.
GraphRequest(t) ==
    /\ clu.pc[t] = "idle"
    /\ \E force \in BOOLEAN :
          /\ ins' = IF force THEN invalidate_cache(ins) ELSE ins
          /\ clu' = [clu EXCEPT !.pc[t] = "wait", !.force[t] = force]
    /\ UNCHANGED insFrame

\* Requests for the insights and for the graph, forced or not, on the graph
\* of three persons and two relationships.
NextInsights ==
    \/ \E t \in Threads : InsightsCall(t)
    \/ \E t \in Threads : InsightsCheck(t)
    \/ \E t \in Threads : InsightsFetch(t)
    \/ \E t \in Threads : InsightsStore(t)
    \/ \E t \in Threads : GraphRequest(t)
    \/ \E t \in Threads : ClusterAcquire(t)
    \/ \E t \in Threads : ClusterCount(t)
    \/ \E t \in Threads : ClusterWrite(t)
    \/ \E t \in Threads : ClusterFails(t)
InitInsights ==
    /\ graph = RerunGraph
    /\ aliases = <<>>
    /\ InitRest({}, TextOnly, 0, {})
SpecInsights == InitInsights /\ [][NextInsights]_vars

\* email_to_name called twice in a row, on every two identifiers.
NextResolve == \E t \in Threads : ResolveWhole(t)
SpecResolve == Init /\ [][NextResolve]_vars

\* One thread whose model may put a text into any response, with or without
\* tool calls, and can answer every call up to the round cap with tool calls.
ResponseTexts == {<<>>, <<"t1">>, <<"t2">>}
NextTexts ==
    \/ Start(1)
    \/ ModelCall(1)
    \/ ModelCallText(1)
    \/ Dispatch(1)
    \/ Finish(1)
InitTexts ==
    InitWith({Pairwise(A_LO, B_LO, "c1")}, ResponseTexts, MAX_AGENT_ROUNDS + 1, {1})
SpecTexts == InitTexts /\ [][NextTexts]_vars

\* should_process_chain on every chain text and people argument.
NextTriageFn == TriageCall
SpecTriageFn == InitWith({}, TextOnly, 0, {}) /\ [][NextTriageFn]_vars

\* One thread handed to run_agent_from_chain_text.
NextTriage ==
    \/ ChainStart(1)
    \/ ModelCall(1)
    \/ ModelCallFails(1)
    \/ Dispatch(1)
    \/ Finish(1)
InitTriage == InitWith(PairwiseCalls, TextOnly, MaxOps, {1})
SpecTriage == InitTriage /\ [][NextTriage]_vars

\* Every model call returns or fails, a free worker takes the next task and
\* the consumer loop keeps running: no step that can be taken waits forever.
SpecBackfillLive == SpecBackfill /\ WF_vars(NextBackfill)

\* ------------------------------------------------------------------------
\* Properties
\* ------------------------------------------------------------------------

RawIds == {A_LO, A_UP, B_LO, C_NAME, D_NAME}

Edges == 1..Len(graph.edges)

IsPrefix(p, q) == Len(p) <= Len(q) /\ SubSeq(q, 1, Len(p)) = p

NoDuplicates(q) == \A i, j \in 1..Len(q) : i # j => q[i] # q[j]

\* The step handles a tool call.
IsDispatch == ops' = ops + 1

\* C1: when a thread has terminated normally, its increment raised the
\* email_count of every edge it appended a comment to by exactly 1, and of
\* every other edge by 0, whatever the number of calls, rounds or spellings
\* that named the pair.
C1_CountOncePerThreadAndPair ==
    \A t \in Threads :
        pc[t] = "done" =>
            \A i \in 1..Len(inc_delta[t]) :
                inc_delta[t][i] = IF i \in appended[t] THEN 1 ELSE 0

\* C2: normalize_pair gives the same pair for both argument orders, and the
\* graph never holds two relationships between the same unordered pair of
\* Person keys.
C2_OneEdgePerUnorderedPair ==
    /\ \A a, b \in RawIds : normalize_pair(a, b) = normalize_pair(b, a)
    /\ \A i, j \in Edges :
          i # j => {graph.edges[i].src, graph.edges[i].dst}
                       # {graph.edges[j].src, graph.edges[j].dst}

\* C2 witness: one relationship holds the comment of a call that named the
\* pair as (a, b) and the comment of a call that named it as (b, a).
C2_Witness ==
    \E i \in Edges :
        /\ graph.edges[i].src # graph.edges[i].dst
        /\ "c1" \in SeqToSet(graph.edges[i].comments)
        /\ "c2" \in SeqToSet(graph.edges[i].comments)

\* Every response the thread received so far carried tool calls.
OnlyToolResponses(t) ==
    \A k \in 1..Len(messages[t]) :
        messages[t][k].role = "assistant" => messages[t][k].status = "tool_calls"

\* C3: a thread never makes more than MAX_AGENT_ROUNDS model calls, and a
\* thread that left the loop after receiving only responses with tool calls
\* made exactly MAX_AGENT_ROUNDS of them.
C3_RoundCap ==
    \A t \in Threads :
        /\ model_calls[t] <= MAX_AGENT_ROUNDS
        /\ (pc[t] \in {"finish", "done"} /\ OnlyToolResponses(t))
              => model_calls[t] = MAX_AGENT_ROUNDS

\* C3 witness: a thread has terminated after MAX_AGENT_ROUNDS responses that
\* all carried tool calls.
C3_Witness ==
    \E t \in Threads :
        pc[t] = "done" /\ OnlyToolResponses(t) /\ model_calls[t] = MAX_AGENT_ROUNDS

AppendCommentPost(g, h, a, b, text) ==
    LET p == normalize_pair(email_to_name(aliases, a), email_to_name(aliases, b))
        matched == MatchEdges(g, p[1], p[2])
    IN  IF matched = {}
        THEN /\ Len(h.edges) = Len(g.edges) + 1
             /\ SubSeq(h.edges, 1, Len(g.edges)) = g.edges
             /\ {h.edges[Len(h.edges)].src, h.edges[Len(h.edges)].dst} = {p[1], p[2]}
             /\ h.edges[Len(h.edges)].comments = <<text>>
             /\ h.edges[Len(h.edges)].email_count = 0
        ELSE /\ Len(h.edges) = Len(g.edges)
             /\ \A i \in 1..Len(g.edges) :
                   IF i \in matched
                   THEN h.edges[i] = [g.edges[i] EXCEPT !.comments = Append(@, text)]
                   ELSE h.edges[i] = g.edges[i]

\* C5: a handled add_relationship_comment call (append_comment) creates the
\* edge with comments = [text] and email_count = 0 when the pair has no edge,
\* and otherwise appends text, leaving earlier comments and email_count alone.
C5_AppendCreatesOrAppends ==
    [][(IsDispatch /\ last'.status = "ok"
            /\ last'.call.name = "add_relationship_comment")
        => AppendCommentPost(graph, graph', Strip(last'.call.args.from_person),
                             Strip(last'.call.args.to_person), last'.call.args.comment)]_vars

\* C6: in every step of threads, backfill and on-demand summaries, no Person
\* and no edge is removed and every edge's comments stay a prefix of its
\* later comments.
C6_CommentsOnlyGrow ==
    [][/\ graph.persons \subseteq graph'.persons
       /\ Len(graph.edges) <= Len(graph'.edges)
       /\ \A i \in 1..Len(graph.edges) :
             /\ graph'.edges[i].src = graph.edges[i].src
             /\ graph'.edges[i].dst = graph.edges[i].dst
             /\ IsPrefix(graph.edges[i].comments, graph'.edges[i].comments)]_vars

\* C6 witness: both threads appended comments, an edge holds two comments and
\* a summary was written on it.
C6_Witness ==
    /\ \A t \in Threads : appended[t] # {}
    /\ \E i \in Edges :
          Len(graph.edges[i].comments) >= 2 /\ graph.edges[i].summary # <<>>

\* C7: handling one tool call adds at most one comment to any edge.
C7_OneCopyPerEvent ==
    [][IsDispatch =>
          \A i \in 1..Len(graph'.edges) :
              Len(graph'.edges[i].comments)
                  <= (IF i <= Len(graph.edges) THEN Len(graph.edges[i].comments) ELSE 0) + 1]_vars

\* C8: no edge connects a Person to itself.
C8_NoSelfEdge == \A i \in Edges : graph.edges[i].src # graph.edges[i].dst

\* The arguments of a call of a known tool do not parse or lack a field the
\* tool's schema requires.
Malformed(call) ==
    \/ "bad_json" \in DOMAIN call.args
    \/ call.name \in KnownNames /\ ~(RequiredFields(call.name) \subseteq DOMAIN call.args)

\* C9: a tool call whose arguments do not parse or lack a required field
\* raises: it is not acknowledged and its thread is aborted.
C9_MalformedCallAborts ==
    (last.t # 0 /\ Malformed(last.call)) =>
        (last.status = "raised" /\ pc[last.t] = "error")

\* C10: a tool call whose name is none of the three tools raises: it is not
\* handled as one of them and not acknowledged.
C10_UnknownToolAborts ==
    (last.t # 0 /\ last.call.name \notin KnownNames) => last.status = "raised"

\* The canonical pair a pairwise call names.
CallPair(call) ==
    normalize_pair(email_to_name(aliases, Strip(call.args.from_person)),
                   email_to_name(aliases, Strip(call.args.to_person)))

\* C11: a pairwise append that is acknowledged with status ok and names an
\* identifier that has no Person node leaves both Person nodes and the edge
\* in the graph: it never succeeds with the graph as it was.
C11_UnknownEntityNotSilent ==
    [][(/\ IsDispatch
        /\ last'.status = "ok"
        /\ last'.call.name = "add_relationship_comment"
        /\ ~({CallPair(last'.call)[1], CallPair(last'.call)[2]} \subseteq graph.persons))
       => /\ {CallPair(last'.call)[1], CallPair(last'.call)[2]} \subseteq graph'.persons
          /\ MatchEdges(graph', CallPair(last'.call)[1], CallPair(last'.call)[2]) # {}]_vars

\* C12: a tool call that raises (malformed payload, failed transaction) ends
\* its thread with the exception and leaves the graph as the earlier calls
\* left it; an aborted thread stays aborted, returns nothing, never calls
\* increment_email_count_batch, and the comments it appended stay.
C12_AbortKeepsWritesNoCount ==
    [][/\ (IsDispatch /\ last'.status = "raised")
          => /\ pc'[last'.t] = "error"
             /\ graph' = graph
             /\ inc_calls'[last'.t] = <<>>
             /\ result'[last'.t] = <<>>
       /\ \A t \in Threads :
             pc[t] = "error"
                => /\ pc'[t] = "error"
                   /\ inc_calls'[t] = <<>>
                   /\ result'[t] = <<>>
                   /\ \A i \in appended[t] :
                         IsPrefix(graph.edges[i].comments, graph'.edges[i].comments)]_vars

\* C12 witness: a thread whose earlier call appended a comment was aborted by
\* a failed transaction of a well-formed call, and the comment is in the graph
\* on an edge whose email_count nobody raised.
C12_Witness ==
    \E t \in Threads :
        /\ pc[t] = "error"
        /\ last.t = t /\ last.status = "raised" /\ ~Malformed(last.call)
        /\ \E i \in appended[t] :
              /\ i \in Edges
              /\ "c1" \in SeqToSet(graph.edges[i].comments)
              /\ graph.edges[i].email_count = 0

\* C13: aliases.json is loaded at most once, and every finished call of
\* email_to_name returned what the fully loaded table gives for its argument.
C13_AliasLoadedOnceAndWhole ==
    /\ loads <= 1
    /\ \A t \in Threads :
          rs[t].pc = "done" => rs[t].ret = <<email_to_name(aliases, rs[t].email)>>

\* Number of tool calls acknowledged to thread t (each is one append here).
ToolAcks(t) ==
    Cardinality({k \in 1..Len(messages[t]) : messages[t][k].role = "tool"})

RECURSIVE SumAcks(_)
SumAcks(S) ==
    IF S = {} THEN 0
    ELSE LET t == CHOOSE x \in S : TRUE IN ToolAcks(t) + SumAcks(S \ {t})

RECURSIVE SumComments(_)
SumComments(i) ==
    IF i > Len(graph.edges) THEN 0
    ELSE Len(graph.edges[i].comments) + SumComments(i + 1)

\* The comments in the graph are as many as the appends the threads made.
EveryAppendKept == SumComments(1) = SumAcks(Threads)

\* C14: when all threads have finished, no append is lost (the comments in
\* the graph are as many as the appends made) and every edge's email_count
\* is the number of threads that appended to it.
C14_NoUpdateLost ==
    (\A t \in Threads : pc[t] = "done") =>
        /\ EveryAppendKept
        /\ \A i \in Edges :
              graph.edges[i].email_count
                  = Cardinality({t \in Threads : i \in appended[t]})

\* The summarize_edges run over the large graph has returned.
Returned == bf.pc = "idle" /\ bf.runs > 0

\* The candidates whose task gave a result (once the run has returned).
Successes == SeqToSet(pool.candidates) \ pool.skipped

\* Places <<k, j>> of the set_summary_batch calls that name the edge of row f.
WritesOf(f) ==
    {kj \in (1..Len(pool.writes)) \X (1..SUMMARY_WRITE_BATCH_SIZE + 1) :
        /\ kj[2] <= Len(pool.writes[kj[1]])
        /\ pool.writes[kj[1]][kj[2]][1] = f.email_a
        /\ pool.writes[kj[1]][kj[2]][2] = f.email_b}

\* The summary property of the edge of row f.
SummaryInGraph(f) ==
    {graph.edges[i].summary : i \in MatchEdges(graph, f.email_a, f.email_b)}

Ceil(n, d) == (n + d - 1) \div d

\* C15: every set_summary_batch call but the last of a run holds exactly
\* SUMMARY_WRITE_BATCH_SIZE results and none is empty or larger; when the run
\* has returned with S successful edges, ceil(S / SUMMARY_WRITE_BATCH_SIZE)
\* calls were made and every successful edge is in exactly one of them, in
\* whatever order the tasks completed.
C15_BatchedWrites ==
    /\ \A k \in 1..Len(pool.writes) :
          /\ Len(pool.writes[k]) \in 1..SUMMARY_WRITE_BATCH_SIZE
          /\ (k < Len(pool.writes) \/ ~Returned)
                => Len(pool.writes[k]) = SUMMARY_WRITE_BATCH_SIZE
    /\ Returned =>
          /\ Len(pool.writes) = Ceil(Cardinality(Successes), SUMMARY_WRITE_BATCH_SIZE)
          /\ \A f \in Successes : Cardinality(WritesOf(f)) = 1
          /\ \A f \in pool.skipped : WritesOf(f) = {}

\* C15 witness: a run with two workers in which a task failed or overtook
\* an earlier one has returned after a full batch and a last, smaller one.
C15_Witness ==
    /\ Returned
    /\ pool.max_workers = 2
    /\ pool.irregular > 0
    /\ Len(pool.writes) = 2
    /\ Len(pool.writes[1]) = SUMMARY_WRITE_BATCH_SIZE
    /\ Len(pool.writes[2]) < SUMMARY_WRITE_BATCH_SIZE

\* C16: an edge whose summarization failed keeps the summary it had when the
\* run read it; no edge gets a second model call; and a run with failures
\* still returns having called the model for every candidate and written a
\* summary text for every edge that did not fail.
C16_FailureSkipsOnlyThatEdge ==
    /\ NoDuplicates(pool.calls)
    /\ \A f \in pool.skipped : SummaryInGraph(f) = {f.summary}
    /\ Returned =>
          /\ SeqToSet(pool.calls) = SeqToSet(pool.candidates)
          /\ Len(pool.calls) = Len(pool.candidates)
          /\ \A f \in Successes :
                \E text \in SummaryTexts : SummaryInGraph(f) = {<<text>>}

\* C16 witness: the run has returned; the task of a candidate that was not
\* the last one failed, and summaries were written after it.
C16_Witness ==
    /\ Returned
    /\ \E f \in pool.skipped :
          /\ IndexOf(pool.candidates, f) < Len(pool.candidates)
          /\ f.summary = <<>>
    /\ Len(pool.writes) >= 1
    /\ Cardinality(Successes) > SUMMARY_WRITE_BATCH_SIZE

\* C17: a running summarize_edges run returns, and when it has returned the
\* batch is empty, every successful edge holds its summary in the graph, and
\* the count returned is the candidates minus the skipped ones.
C17_BackfillReturnsFlushed ==
    /\ (bf.pc = "running") ~> Returned
    /\ [](Returned =>
            /\ bf.batch = <<>>
            /\ bf.futures = {}
            /\ \A f \in Successes : SummaryInGraph(f) \subseteq {<<"s1">>}
            /\ \A f \in Successes : SummaryInGraph(f) # {}
            /\ bf.count = Len(pool.candidates) - Cardinality(pool.skipped))

\* C17 witness: a run has returned after a final flush of a partial batch,
\* with an edge skipped.
C17_Witness ==
    /\ Returned
    /\ pool.skipped # {}
    /\ bf.count > SUMMARY_WRITE_BATCH_SIZE
    /\ bf.count < Len(pool.candidates)

\* C18: never more than max_workers model calls are in flight, and the tasks
\* started are the candidates in submission order, each once: all of them
\* when the run has returned.
C18_BoundedPool ==
    /\ Cardinality(pool.running) <= pool.max_workers
    /\ IsPrefix(pool.calls, pool.candidates)
    /\ pool.calls \o pool.pending = pool.candidates
    /\ Returned => pool.calls = pool.candidates

\* C18 witness: two workers are busy while tasks are waiting.
C18_Witness ==
    /\ bf.pc = "running"
    /\ pool.max_workers = 2
    /\ Cardinality(pool.running) = 2
    /\ Len(pool.pending) > SUMMARY_WRITE_BATCH_SIZE

\* The unordered pairs of the edges summarize_edges(emails, skip_existing)
\* is to take as candidates from the graph g.
ExpectedCandidates(g, emails, skip_existing) ==
    {{g.edges[i].src, g.edges[i].dst} : i \in
        {i \in 1..Len(g.edges) :
            /\ g.edges[i].comments # <<>>
            /\ skip_existing =>
                  (g.edges[i].summary = <<>> \/ StripText(g.edges[i].summary[1]) = "")
            /\ emails # <<>> =>
                  (g.edges[i].src \in SeqToSet(emails) \/ g.edges[i].dst \in SeqToSet(emails))}}

\* C19: the candidates a run reads are exactly the edges with a comment
\* that, with skip_existing, have no non-blank summary and, with a filter,
\* touch an entity of the filter; and the run changes the summary of no
\* edge that is not a candidate.
C19_CandidateSet ==
    [][/\ bf'.runs = bf.runs + 1
          => {{f.email_a, f.email_b} : f \in SeqToSet(pool'.candidates)}
                = ExpectedCandidates(graph, pool'.emails, pool'.skip_existing)
       /\ \A i \in 1..Len(graph.edges) :
             graph'.edges[i].summary # graph.edges[i].summary
                => {graph.edges[i].src, graph.edges[i].dst}
                      \in ExpectedCandidates(BackfillGraph, pool.emails, pool.skip_existing)]_vars

\* C20: every edge's summary is absent or one of the texts the model gives;
\* it is never the empty string.
C20_SummaryAbsentOrWhole ==
    \A i \in Edges :
        graph.edges[i].summary = <<>>
            \/ \E text \in SummaryTexts : graph.edges[i].summary = <<text>>


\* ----- C21 -----
\* The thread was handed to run_agent_from_chain_text and triage rejected
\* it: no address is known, or should_process_chain answered False.
Rejected ==
    /\ triage.verdict # <<>>
    /\ (triage.addresses = <<>> \/ triage.verdict = <<FALSE>>)

Participants(addresses) ==
    {email_to_name(aliases, addresses[i]) : i \in 1..Len(addresses)}

\* C22: should_process_chain answers False when fewer than
\* MIN_ADDRESSES_FOR_TRIAGE distinct participants are known, when the text
\* holds a low-signal phrase, and when the body without its header lines is
\* shorter than MIN_BODY_LENGTH; it answers True in every other case.
C22_TriageVerdict ==
    triage.verdict # <<>> =>
        (triage.verdict[1] <=>
            ~ \/ Cardinality(Participants(triage.addresses)) < MIN_ADDRESSES_FOR_TRIAGE
              \/ SkipPatternFound(triage.text)
              \/ Len(TriageBody(triage.text)) < MIN_BODY_LENGTH)


\* ----- C23 -----
IsAssistant(m) == m.role = "assistant"

\* The last response of thread t: its entry in the transcript.
LastResponse(t) ==
    SelectSeq(messages[t], IsAssistant)[Len(SelectSeq(messages[t], IsAssistant))]

\* The free text produced last in a sequence of contents, <<>> if none of
\* them holds a text.
RECURSIVE LastText(_)
LastText(q) ==
    IF q = <<>> THEN <<>>
    ELSE IF q[Len(q)] # <<>> THEN q[Len(q)]
    ELSE LastText(SubSeq(q, 1, Len(q) - 1))

PLACEHOLDER == "(no summary returned)"

\* C23: run_agent that ended normally returned a string: the text of the
\* response without tool calls that ended the loop, or, when the loop ended
\* at the round cap, the free text produced last, or the placeholder when
\* there is no such text.
C23_ReturnedSummary ==
    pc[1] = "done" =>
        /\ result[1] # <<>>
        /\ LastResponse(1).status = "text" =>
               result[1] = <<IF assistant_content[1] = <<>> THEN PLACEHOLDER
                             ELSE assistant_content[1][1]>>
        /\ LastResponse(1).status = "tool_calls" =>
               result[1] = <<IF LastText(texts[1]) = <<>> THEN PLACEHOLDER
                             ELSE LastText(texts[1])[1]>>


\* ----- C24 -----
\* The canonical ids of a list of identifiers.
CanonSet(q) == {email_to_name(aliases, q[i]) : i \in 1..Len(q)}

\* The identifiers of the list name different entities.
DistinctEntities(q) == Cardinality(CanonSet(q)) = Len(q)

\* From g to h the comment was appended once to the edge of every unordered
\* pair of pairs, each of which has an edge in h, and no other edge changed.
AppendedExactly(g, h, pairs, text) ==
    /\ \A e \in pairs : \E i \in 1..Len(h.edges) : {h.edges[i].src, h.edges[i].dst} = e
    /\ \A i \in 1..Len(h.edges) :
          IF {h.edges[i].src, h.edges[i].dst} \in pairs
          THEN h.edges[i].comments =
                   (IF i <= Len(g.edges) THEN g.edges[i].comments ELSE <<>>) \o <<text>>
          ELSE i <= Len(g.edges) /\ h.edges[i] = g.edges[i]

\* The pairs of a broadcast: the sender with every recipient that is not the
\* sender.
SenderPairs(from, to) ==
    {{email_to_name(aliases, from), c} : c \in CanonSet(to) \ {email_to_name(aliases, from)}}

\* The pairs recipient linking makes: every two of the recipients.
LinkPairs(people) == {{a, b} : a \in CanonSet(people), b \in CanonSet(people)} \ {{a} : a \in CanonSet(people)}

\* C24: a handled broadcast from A to recipients that are different persons
\* appends its comment once to the edge of A with each recipient other than A
\* and changes no other edge (no two recipients are linked); a handled group
\* call on such recipients appends it once to the edge of every two of them.
C24_BroadcastAndLinking ==
    [][/\ (IsDispatch /\ last'.status = "ok"
            /\ last'.call.name = "add_relationship_comments_batch"
            /\ DistinctEntities(last'.call.args.to_people))
         => AppendedExactly(graph, graph',
                SenderPairs(last'.call.args.from_person, last'.call.args.to_people),
                last'.call.args.comment)
       /\ (IsDispatch /\ last'.status = "ok"
            /\ last'.call.name = "add_relationship_group"
            /\ DistinctEntities(last'.call.args.people))
         => AppendedExactly(graph, graph', LinkPairs(last'.call.args.people),
                            last'.call.args.comment)]_vars


\* ----- C25 -----
\* C(n, 2)
Choose2(n) == (n * (n - 1)) \div 2

\* The unordered pairs of entities the graph has an edge for.
EdgePairs(g) == {{g.edges[i].src, g.edges[i].dst} : i \in 1..Len(g.edges)}

\* Every pair of pairs has an edge in g.
AllLinked(g, pairs) == pairs \subseteq EdgePairs(g)

Upserted(t) == messages[t] # <<>>

\* C26: both endpoints of every edge are Persons of the graph, and a thread
\* makes no model call and appends to no edge before it has a transcript, at
\* which point all identifiers of the thread are Persons.
C26_EndpointsExist ==
    /\ \A i \in Edges :
          graph.edges[i].src \in graph.persons /\ graph.edges[i].dst \in graph.persons
    /\ \A t \in Threads :
          /\ (model_calls[t] > 0 \/ appended[t] # {}) => Upserted(t)
          /\ Upserted(t) => \E addrs \in AddressLists : CanonSet(addrs) \subseteq graph.persons

\* The thread created an edge, and its call that names a person nobody
\* upserted was handled and created none.
C26_Witness ==
    /\ Len(graph.edges) >= 1
    /\ model_calls[1] >= 1
    /\ last.status = "ok"
    /\ last.call = Pairwise(A_LO, D_NAME, "c1")
    /\ D_NAME \notin graph.persons


\* ----- C27 -----
IsUpper(c) == c >= 65 /\ c <= 90

\* The characters c and d are the same, or the same letter in two cases.
SameLetter(c, d) ==
    \/ c = d
    \/ IsUpper(c) /\ d = c + 32
    \/ IsUpper(d) /\ c = d + 32

\* The strings differ at most in letter case.
SameButCase(x, y) == Len(x) = Len(y) /\ \A i \in 1..Len(x) : SameLetter(x[i], y[i])

\* x is y with every letter in lower case.
IsLowercased(x, y) == SameButCase(x, y) /\ \A i \in 1..Len(x) : ~IsUpper(x[i])

\* r is what the claim gives for the email e: the value the alias table
\* holds for the lowercased email, else the lowercased email.
CanonicalOf(r, e) ==
    IF \E k \in DOMAIN aliases : IsLowercased(k, e)
    THEN \E k \in DOMAIN aliases : IsLowercased(k, e) /\ r = aliases[k]
    ELSE IsLowercased(r, e)

Resolved(t) == rs[t].pc = "done"

\* C27 as stated: two emails that differ only in letter case get the same
\* canonical id, an email gets the alias of its lowercased form or that
\* form, and an identifier without "@" is returned unchanged.
C27_CaseInsensitive ==
    /\ \A t \in Threads :
          Resolved(t) =>
              IF HasAt(rs[t].email) THEN CanonicalOf(rs[t].ret[1], rs[t].email)
              ELSE rs[t].ret[1] = rs[t].email
    /\ \A t, u \in Threads :
          (Resolved(t) /\ Resolved(u) /\ HasAt(rs[t].email)
              /\ SameButCase(rs[t].email, rs[u].email))
            => rs[t].ret = rs[u].ret

\* C27 amended: the same of the identifier with the whitespace around it
\* removed, which is what email_to_name works on.
C27_CaseInsensitiveStripped ==
    /\ \A t \in Threads :
          Resolved(t) =>
              IF HasAt(rs[t].email) THEN CanonicalOf(rs[t].ret[1], Strip(rs[t].email))
              ELSE rs[t].ret[1] = Strip(rs[t].email)
    /\ \A t, u \in Threads :
          (Resolved(t) /\ Resolved(u) /\ HasAt(rs[t].email)
              /\ SameButCase(Strip(rs[t].email), Strip(rs[u].email)))
            => rs[t].ret = rs[u].ret

\* "B@ " and "b@" were resolved to one id, the alias of "b@".
C27_Witness ==
    /\ Resolved(1) /\ Resolved(2)
    /\ rs[1].email = <<66, AT, 32>>
    /\ rs[2].email = B_LO
    /\ rs[1].ret = rs[2].ret
    /\ aliases # <<>>


\* ----- C28 -----
\* The alias table could not be had: there is no file, or reading it failed
\* and no call has loaded it.
Unavailable ==
    \/ aliases = <<>>
    \/ loads = 0 /\ \E u \in Threads : rs[u].pc = "raised"

\* C28: no call of email_to_name ends with an exception, and while the
\* alias source is unavailable every call for an email returns the
\* lowercased identifier.
C28_ResolverNeverRaises ==
    \A t \in Threads :
        /\ rs[t].pc # "raised"
        /\ (Unavailable /\ Resolved(t) /\ HasAt(rs[t].email))
              => IsLowercased(rs[t].ret[1], Strip(rs[t].email))


\* ----- C29 -----
\* The rows whose processing failed.
FailedRows == {r \in Threads : pc[r] = "error"}

\* C29: in a batch command a failure is reported for the thread that failed
\* and for no other, and it does not end the batch: every later thread is
\* still processed (or passed over as empty).
C29_BatchGoesOn ==
    /\ cli.errors \subseteq FailedRows
    /\ \A r \in FailedRows : r < cli.row => r \in cli.errors
    /\ ~(cli.halted /\ cli.row < LastRow)
    /\ cli.row > LastRow =>
          \A r \in Threads : pc[r] \in {"done", "error"} \/ r \in cli.empty


\* ----- C30 -----
\* The callers inside the with statement of ensure_clustered.
InGuard == {t \in Threads : clu.pc[t] \in {"held", "louvain"}}

\* The callers whose run_louvain is under way.
Recomputing == {t \in Threads : clu.pc[t] = "louvain"}

\* C30: at most one caller is inside the guarded section, hence at most one
\* recompute is under way, and while one is under way the next step of the
\* extraction thread (its upsert, its model call, its tool call, its
\* increment) can be taken.
C30_OneRecomputeNoBlocking ==
    /\ Cardinality(InGuard) <= 1
    /\ Cardinality(Recomputing) <= 1
    /\ Recomputing # {} =>
          /\ pc[1] = "idle" => ENABLED Start(1)
          /\ pc[1] = "loop" => ENABLED ModelCall(1)
          /\ pc[1] = "dispatch" => ENABLED Dispatch(1)
          /\ pc[1] = "finish" => ENABLED Finish(1)

\* A recompute is under way, the other caller waits for the lock, and the
\* extraction thread has handled a tool call since the recompute began.
C30_Witness ==
    /\ Recomputing # {}
    /\ \E t \in Threads : clu.pc[t] = "wait"
    /\ ops > clu.ops0
    /\ Len(graph.edges) >= 1

\* ----- C31 -----
\* The controller's phase at a position of run_agent; an exception that left
\* run_agent is Aborted.
Phase(p) ==
    CASE p = "idle" -> "Idle"
      [] p = "loop" -> "AwaitingModelResponse"
      [] p = "dispatch" -> "DispatchingOperations"
      [] p \in {"finish", "done"} -> "Terminal"
      [] p = "error" -> "Aborted"

\* The phase changes of the state machine Idle, AwaitingModelResponse,
\* (DispatchingOperations, AwaitingModelResponse)*, Terminal.
PhaseSteps ==
    { <<"Idle", "AwaitingModelResponse">>,
      <<"AwaitingModelResponse", "DispatchingOperations">>,
      <<"DispatchingOperations", "AwaitingModelResponse">>,
      <<"AwaitingModelResponse", "Terminal">> }

\* A model call is made only in AwaitingModelResponse, one per step: the
\* call blocks the thread, so no second call is outstanding.
OneCallAtATime(t) ==
    /\ model_calls'[t] \in {model_calls[t], model_calls[t] + 1}
    /\ model_calls'[t] # model_calls[t] => Phase(pc[t]) = "AwaitingModelResponse"

\* C31 as stated: every phase change of a thread is one of the state
\* machine's (or an abort), so every dispatch is followed by another model
\* call before the thread terminates; at most one model call is outstanding.
C31_PhaseOrder ==
    [][\A t \in Threads :
          /\ Phase(pc'[t]) # Phase(pc[t]) =>
                \/ <<Phase(pc[t]), Phase(pc'[t])>> \in PhaseSteps
                \/ Phase(pc'[t]) = "Aborted"
          /\ OneCallAtATime(t)]_vars

\* C31 amended: the same, but after the dispatch of the operations of the
\* response to the last permitted model call the thread goes to Terminal.
C31_PhaseOrderWithCap ==
    [][\A t \in Threads :
          /\ Phase(pc'[t]) # Phase(pc[t]) =>
                \/ <<Phase(pc[t]), Phase(pc'[t])>> \in PhaseSteps
                \/ Phase(pc'[t]) = "Aborted"
                \/ /\ Phase(pc[t]) = "DispatchingOperations"
                   /\ Phase(pc'[t]) = "Terminal"
                   /\ model_calls[t] = MAX_AGENT_ROUNDS
          /\ OneCallAtATime(t)]_vars

\* A thread went from dispatch back to the model in its first rounds and
\* from the dispatch of its last round to its end.
C31_Witness ==
    /\ pc[1] = "done"
    /\ model_calls[1] = MAX_AGENT_ROUNDS
    /\ LastResponse(1).status = "tool_calls"

\* ----- C32 -----
\* The pairs of an operation: what the branch handling it adds to an empty
\* set of pairs.
PairsOfCall(call) == ToolCallStep(graph, aliases, {}, call).mp

\* Each acknowledgment in the transcript follows the assistant message of its
\* round or the acknowledgment of the operation returned just before it.
AcksInOrder(t) ==
    \A k \in 1..Len(messages[t]) :
        messages[t][k].role = "tool" =>
            /\ k > 1
            /\ messages[t][k - 1].role \in {"assistant", "tool"}
            /\ messages[t][k].id[1] = messages[t][k - 1].id[1]
            /\ messages[t][k].id[2] = messages[t][k - 1].id[2] + 1

\* The operations still to dispatch are the rest of the last response, in
\* the order returned.
PendingInOrder(t) ==
    tool_calls[t] # <<>> =>
        /\ pc[t] \in {"dispatch", "error"}
        /\ \A k \in 1..Len(tool_calls[t]) :
               tool_calls[t][k].id =
                   <<messages[t][Len(messages[t])].id[1],
                     messages[t][Len(messages[t])].id[2] + k>>

\* The step is one of thread t's run_agent.
ThreadMoves(t) ==
    \/ pc'[t] # pc[t]
    \/ messages'[t] # messages[t]
    \/ tool_calls'[t] # tool_calls[t]
    \/ modified_pairs'[t] # modified_pairs[t]
    \/ ops' # ops /\ last'.t = t

\* One step of a thread with operations to dispatch that does not abort:
\* the first pending operation goes to the store once, is acknowledged with
\* its id, and its pairs are added to the touched pairs.
DispatchedOnce(t) ==
    (pc[t] = "dispatch" /\ ThreadMoves(t) /\ pc'[t] # "error") =>
        /\ tool_calls[t] # <<>>
        /\ ops' = ops + 1
        /\ last'.call = [name |-> Head(tool_calls[t]).name,
                         args |-> Head(tool_calls[t]).args]
        /\ messages'[t] = Append(messages[t], Msg("tool", Head(tool_calls[t]).id, "ok"))
        /\ tool_calls'[t] = Tail(tool_calls[t])
        /\ modified_pairs'[t] = modified_pairs[t] \cup PairsOfCall(Head(tool_calls[t]))
        /\ pc'[t] \in {"loop", "finish"} <=> tool_calls'[t] = <<>>

\* Nothing else takes an operation off the list, writes an acknowledgment or
\* asks the model while operations are pending.
NoOtherDispatch(t) ==
    pc[t] # "dispatch" =>
        /\ tool_calls'[t] # tool_calls[t] => model_calls'[t] = model_calls[t] + 1
        /\ \A k \in 1..Len(messages'[t]) :
               k > Len(messages[t]) => messages'[t][k].role # "tool"
        /\ model_calls'[t] # model_calls[t] => tool_calls[t] = <<>>
        /\ ~(ops' # ops /\ last'.t = t)

\* C32: every operation of every response, the response to the last
\* permitted model call included, is dispatched exactly once in the order
\* returned and acknowledged once with its id after the assistant message
\* and before the next model call or the end of the thread, and its pairs
\* join the thread's touched pairs; only an exception leaves operations
\* undispatched.
C32_EveryOperationDispatchedOnce ==
    /\ [](\A t \in Threads : AcksInOrder(t) /\ PendingInOrder(t))
    /\ [][\A t \in Threads : DispatchedOnce(t) /\ NoOtherDispatch(t)]_vars

\* A thread ended after its last permitted model call returned operations
\* and all were acknowledged, one response having carried two operations.
C32_Witness ==
    /\ pc[1] = "done"
    /\ model_calls[1] = MAX_AGENT_ROUNDS
    /\ messages[1][Len(messages[1])].role = "tool"
    /\ messages[1][Len(messages[1])].id[1] = MAX_AGENT_ROUNDS
    /\ \E k \in 1..Len(messages[1]) : messages[1][k].id[2] = 2
    /\ modified_pairs[1] # {}

\* ----- C33 -----
\* The step is an extraction write: a dispatched operation or the increment
\* at the end of a thread.
ExtractionStep == ops' # ops \/ inc_calls' # inc_calls

\* The step belongs to summarize_edges or to the on-demand summarize_edge.
SummaryStep == bf' # bf \/ od' # od

\* No relationship of g has another summary in h, and the relationships h
\* has in addition have none.
SummariesKept(g, h) ==
    /\ Len(h.edges) >= Len(g.edges)
    /\ \A i \in 1..Len(h.edges) :
          h.edges[i].summary = IF i <= Len(g.edges) THEN g.edges[i].summary ELSE <<>>

\* h has the relationships of g with their comments and counts.
CommentsAndCountsKept(g, h) ==
    /\ Len(h.edges) = Len(g.edges)
    /\ \A i \in 1..Len(g.edges) :
          /\ h.edges[i].src = g.edges[i].src
          /\ h.edges[i].dst = g.edges[i].dst
          /\ h.edges[i].comments = g.edges[i].comments
          /\ h.edges[i].email_count = g.edges[i].email_count

\* C33: an extraction write (append_comment, its fan-out variants,
\* increment_email_count_batch) leaves every summary as it is and creates
\* relationships without one; a summary write (set_summary_batch, the
\* on-demand summarize_edge) leaves every relationship's comments and
\* email_count as they are and creates none; every write is one of the two.
C33_DisjointFields ==
    [][/\ ExtractionStep => SummariesKept(graph, graph')
       /\ SummaryStep => CommentsAndCountsKept(graph, graph')
       /\ graph' # graph => ExtractionStep \/ SummaryStep \/ graph'.edges = graph.edges]_vars

\* A summarized relationship was written to by extraction (two comments, a
\* count) next to a relationship that has no summary.
C33_Witness ==
    \E i, j \in Edges :
        /\ graph.edges[i].summary # <<>>
        /\ Len(graph.edges[i].comments) >= 2
        /\ graph.edges[i].email_count >= 1
        /\ graph.edges[j].summary = <<>>

\* ----- C34 -----
\* The number of times run_louvain was entered: the runs that wrote, the
\* runs that raised, the run under way.
Recomputes == clu.runs + clu.failed + Cardinality(Recomputing)

\* What the claim says decides a call: the graph has a Person and either
\* the call is forced or some Person has no cluster.
MustRecompute(t) ==
    /\ graph.persons # {}
    /\ clu.force[t] \/ \E p \in graph.persons : p \notin clu.clustered

\* Both callers called without force and are back, no recompute raised, and
\* the graph holds the Persons the recompute fetched (Persons are added by
\* the thread's one upsert_persons only).
BothUnforcedDone ==
    /\ \A t \in Threads : clu.pc[t] = "done" /\ ~clu.force[t]
    /\ clu.failed = 0
    /\ clu.nodes # {}
    /\ clu.nodes = graph.persons

\* C34: a call that holds the lock enters the recompute exactly when the
\* graph has a Person and the call is forced or some Person has no cluster;
\* two non-forced calls on an unclustered graph to which no Person is added
\* enter it exactly once between them.
C34_RecomputeWhenNeeded ==
    /\ [](BothUnforcedDone => Recomputes = 1 /\ clu.runs = 1)
    /\ [][\A t \in Threads :
            (clu.pc[t] = "held" /\ clu.pc'[t] # "held") =>
                /\ clu.pc'[t] \in {"louvain", "done"}
                /\ clu.pc'[t] = "louvain" <=> MustRecompute(t)]_vars

\* Two non-forced calls are back from a graph with Persons, one recompute
\* having clustered them all.
C34_Witness ==
    /\ BothUnforcedDone
    /\ Recomputes = 1
    /\ graph.persons \subseteq clu.clustered
    /\ Cardinality(graph.persons) >= 2

\* A forced call recomputes a graph whose Persons all have a cluster.
C34_WitnessForced ==
    \E t \in Threads :
        /\ clu.pc[t] = "louvain"
        /\ clu.force[t]
        /\ graph.persons # {}
        /\ graph.persons \subseteq clu.clustered

\* ----- C35 -----
\* Resolving the resolved identifier gives it back.
Idempotent(table, x) ==
    email_to_name(table, email_to_name(table, x)) = email_to_name(table, x)

\* set_summary_batch and increment_email_count_batch called with the ids of
\* a row of get_all_edges write to the relationship the row was read from.
ReadBackSameEdge(g, table) ==
    \A i \in 1..Len(g.edges) :
        (g.edges[i].src # g.edges[i].dst /\ Len(g.edges[i].comments) > 0) =>
            \E a \in {PyMin(g.edges[i].src, g.edges[i].dst)},
               b \in {PyMax(g.edges[i].src, g.edges[i].dst)} :
                /\ set_summary_batch(g, table, <<<<a, b, "s">>>>).edges[i].summary = <<"s">>
                /\ increment_email_count_batch(g, table, <<<<a, b>>>>).edges[i].email_count
                      = g.edges[i].email_count + 1

\* C35: email_to_name is idempotent on every identifier under the alias
\* table in use, and the ids read back from the graph address, in
\* set_summary_batch and increment_email_count_batch, the relationship
\* append_comment created.
C35_IdempotentSameEdge ==
    /\ \A x \in ResolveInputs \cup graph.persons : Idempotent(aliases, x)
    /\ ReadBackSameEdge(graph, aliases)

\* ----- C36 -----
\* The step starts the second summarize_edges run, with skip_existing true
\* and the emails of the first, after a first run with skip_existing true
\* none of whose candidates failed.
SecondRunStarts ==
    /\ bf.runs = 1
    /\ bf'.runs = 2
    /\ pool.skip_existing
    /\ pool.skipped = {}
    /\ pool'.skip_existing
    /\ pool'.emails = pool.emails

\* The run that starts finds no candidate and returns 0 at once: no task is
\* submitted, so no model call and no set_summary_batch call follow.
ReturnsZeroAtOnce ==
    /\ pool'.candidates = <<>>
    /\ bf'.pc = "idle"
    /\ bf'.count = 0

\* C36: a second summarize_edges run with skip_existing true, after a first
\* one with skip_existing true in which every candidate succeeded and with
\* no extraction write in between, finds no candidate: no model call, no
\* set_summary_batch call, and 0 is returned.
C36_SecondRunFindsNothing ==
    [][SecondRunStarts => ReturnsZeroAtOnce]_vars

\* ----- C37 -----
\* The insights x were computed from graph data read when n invalidations
\* had returned, or later.
ReadSince(x, n) == x[1].epoch >= n

\* C37: the cache never holds insights computed from graph data read before
\* an invalidation that has returned, and a compute_insights call made after
\* an invalidation returned never returns such insights.
C37_NoStaleInsights ==
    /\ ins.cached # <<>> => ReadSince(ins.cached, ins.epoch)
    /\ \A t \in Threads :
          (ins.pc[t] = "done" /\ ins.ret[t] # <<>>) => ReadSince(ins.ret[t], ins.start[t])

====
